---- MODULE Spec2Model ----
(***************************************************************************)
(* Proctoring session manager of the assessment platform                   *)
(* (proctoring-module: class ProctoringManager and its routes).            *)
(*                                                                         *)
(* The store is the two MySQL tables proctoring_sessions and               *)
(* proctoring_violations; the manager keeps the Map activeSessions in the  *)
(* memory of the node process.  Every request handler is an async          *)
(* function: the statements between two awaits run without interruption,   *)
(* and each awaited SQL statement takes effect atomically in the store.    *)
(* A handler is therefore a process whose steps are its SQL statements     *)
(* and the continuations that follow them.                                 *)
(***************************************************************************)
EXTENDS Integers, Sequences, FiniteSets, TLC

\* ---------------------------------------------------------------- bounds
\* session ids a request may name, and those a client starts a session with
SessionIds == {"s1", "s2"}
StartIds == {"s1"}
Procs == {"p1", "p2"}
UserEmails == {"a@x"}
ViolationTypes == {"tab_switch", "no_face"}
Severities == {"medium", "critical"}
\* the violations a client reports: a type with the default severity, another
\* type with another severity
ViolationInputs ==
    {v \in [violationType : ViolationTypes, severity : Severities] :
        v.violationType = "tab_switch" <=> v.severity = "medium"}
\* reasons a client passes to POST /end; omitted reason defaults to 'completed'
Reasons == {"completed", "user_exit"}
MaxViolations == 4
MaxTime == 1

\* ------------------------------------------------------ program constants
\* strict-mode threshold of logViolation
ViolationThreshold == 3
ThresholdReason == "violation_threshold_exceeded"

VARIABLES
    sessions,        \* table proctoring_sessions, keyed by session_id
    violations,      \* table proctoring_violations, in AUTO_INCREMENT order
    activeSessions,  \* this.activeSessions (Map sessionId -> cached session)
    intactSessions,  \* activeSessions of the same run had the process never restarted
    pc,              \* position of each request handler
    req,             \* arguments of the request each handler serves
    local,           \* local variables of each handler
    response,        \* the response sent by the step just taken, if it ended a request
    stats,           \* the getStatistics call in progress: its position and locals
    questions,       \* the question array a caller passes to randomizeQuiz
    settings,        \* randomizeQuestions, randomizeOptions, questionLimit of the call
    delivered,       \* the array randomizeQuiz returned / the questions of res.json
    applied,         \* randomizationApplied of the response of GET /api/quizzes/:id
    quizPc,          \* position of the caller of randomizeQuiz
    payload,         \* what the questions column of the quiz row holds
    query,           \* req.query of the last GET /api/quizzes/:id
    quizResponse,    \* status and body fields of its response
    questionRows,    \* table questions (of the buckets), in AUTO_INCREMENT order
    questionSeq,     \* the last AUTO_INCREMENT id of table questions
    buckets,         \* table question_buckets: the counts of each bucket
    quizRows,        \* table quizzes, keyed by id
    mappings,        \* table quiz_bucket_mappings
    bucketPc,        \* position of the handler of the bucket routes
    bucketReq,       \* the request it serves and its locals
    bucketResponse,  \* the response sent by the step just taken, if it ended a request
    adminPc,         \* position of each handler of the quiz administration routes
    adminReq,        \* the request each serves and its locals
    adminResponse    \* the response sent by the step just taken, if it ended a request

quizVars ==
    <<questions, settings, delivered, applied, quizPc, payload, query, quizResponse>>
proctoringVars ==
    <<sessions, violations, activeSessions, intactSessions, pc, req, local>>
bucketVars ==
    <<questionRows, questionSeq, buckets, quizRows, mappings, bucketPc, bucketReq, bucketResponse>>
adminVars == <<adminPc, adminReq, adminResponse>>
vars == <<proctoringVars, response, stats, quizVars, bucketVars, adminVars>>

NoReq == [op |-> "none"]
NoLocal == [insertId |-> 0]
NoResponse == [op |-> "none"]

\* Map.prototype.delete
MapDelete(m, k) == [x \in (DOMAIN m) \ {k} |-> m[x]]
\* Map.prototype.set
MapSet(m, k, v) == [x \in (DOMAIN m) \cup {k} |-> IF x = k THEN v ELSE m[x]]

\* rows of proctoring_violations that reference session s
ViolationsOf(s) == {i \in 1..Len(violations) : violations[i].session_id = s}

\* no getStatistics call in progress
NoStats == [pc |-> "idle"]
\* null, and a number where null may stand
Null == << >>
Num(n) == <<n>>
\* randomizationSettings before a quiz row is read
NoSettings ==
    [randomizeQuestions |-> FALSE, randomizeOptions |-> FALSE, questionLimit |-> Null]

\* new ProctoringManager(dbPool) on empty tables, no request in progress
ProctoringInit ==
    /\ sessions = << >>
    /\ violations = << >>
    /\ activeSessions = << >>
    /\ intactSessions = << >>
    /\ pc = [p \in Procs |-> "idle"]
    /\ req = [p \in Procs |-> NoReq]
    /\ local = [p \in Procs |-> NoLocal]
    /\ response = NoResponse
    /\ stats = NoStats

\* a query parameter that is absent, and one that holds the string s
Absent == << >>
Param(s) == <<s>>
NoQuery == [randomize_questions |-> Absent, randomize_options |-> Absent,
            question_limit |-> Absent, session_id |-> Absent]
NoQuizResponse == [status |-> 0, body |-> {}]

\* no quiz is being served
QuizIdle ==
    /\ questions = << >>
    /\ settings = NoSettings
    /\ delivered = << >>
    /\ applied = NoSettings
    /\ quizPc = "idle"
    /\ payload = "array"
    /\ query = NoQuery
    /\ quizResponse = NoQuizResponse

\* the handlers of concurrent requests on the bucket routes
BucketHandlers == {"h1", "h2"}

\* the counts of a bucket row as INSERT INTO question_buckets leaves them
NewBucket == [total_questions |-> 0, easy_count |-> 0, medium_count |-> 0, hard_count |-> 0]

\* one bucket without questions, no quiz, no request on the bucket routes
BucketIdle ==
    /\ questionRows = << >>
    /\ questionSeq = 0
    /\ buckets = [b \in {1} |-> NewBucket]
    /\ quizRows = << >>
    /\ mappings = {}
    /\ bucketPc = [h \in BucketHandlers |-> "idle"]
    /\ bucketReq = [h \in BucketHandlers |-> NoReq]
    /\ bucketResponse = NoResponse

\* the handlers of concurrent requests on the quiz administration routes
AdminHandlers == {"a1", "a2"}

\* no request on the quiz administration routes
AdminIdle ==
    /\ adminPc = [h \in AdminHandlers |-> "idle"]
    /\ adminReq = [h \in AdminHandlers |-> NoReq]
    /\ adminResponse = NoResponse

Init == ProctoringInit /\ QuizIdle /\ BucketIdle /\ AdminIdle

\* ------------------------------------------------------------ the store
\* INSERT INTO proctoring_sessions (...) VALUES (..., 'active'): the row with
\* the column defaults violation_count 0 and end_time NULL (-1)
NewSessionRow(sessionData) ==
    [user_email      |-> sessionData.userEmail,
     strict_mode     |-> sessionData.strictMode,
     status          |-> "active",
     violation_count |-> 0,
     end_time        |-> -1]

\* mutant: REPLACE INTO proctoring_sessions, which never refuses a session_id
InsertSessionOkReplace(s) == TRUE

\* session_id VARCHAR(100) UNIQUE NOT NULL: a second row with the key is refused
InsertSessionOk(s) == s \notin DOMAIN sessions

InsertSession(s, sessionData) == MapSet(sessions, s, NewSessionRow(sessionData))

\* mutant: the violations table without its foreign key
InsertViolationOkNoForeignKey(s) == TRUE

\* FOREIGN KEY (session_id) REFERENCES proctoring_sessions(session_id)
InsertViolationOk(s) == s \in DOMAIN sessions

\* mutant: the violations table as a capped log, the oldest row deleted to
\* make room for the new one
InsertViolationCapped(s, t, sev) ==
    Append(IF Len(violations) >= 2 THEN Tail(violations) ELSE violations,
           [id |-> Len(violations) + 1, session_id |-> s,
            violation_type |-> t, severity |-> sev])

\* INSERT INTO proctoring_violations (...): one more row, id by AUTO_INCREMENT
InsertViolation(s, t, sev) ==
    Append(violations,
           [id |-> Len(violations) + 1, session_id |-> s,
            violation_type |-> t, severity |-> sev])

\* mutant: read-increment-write in the manager, SET violation_count = ? with
\* the length of the in-memory violations list plus one
IncrementFromMemory(s) ==
    IF s \in DOMAIN sessions
    THEN [sessions EXCEPT ![s].violation_count =
             (IF s \in DOMAIN activeSessions
              THEN Len(activeSessions[s].violations) ELSE 0) + 1]
    ELSE sessions

\* UPDATE proctoring_sessions SET violation_count = violation_count + 1
\* WHERE session_id = ?  (one statement: the store reads and writes the row at once)
IncrementViolationCount(s) ==
    IF s \in DOMAIN sessions
    THEN [sessions EXCEPT ![s].violation_count = @ + 1]
    ELSE sessions

\* mutant: every reason ends the session as completed
EndStatusAlwaysCompleted(reason) == "completed"

\* mutant: the reason itself is written to the status column
EndStatusIsReason(reason) == reason

\* reason === 'completed' ? 'completed' : 'terminated'
EndStatus(reason) == IF reason = "completed" THEN "completed" ELSE "terminated"

\* the timestamps the store has written so far
StoredTimes == {sessions[s].end_time : s \in DOMAIN sessions} \cup {0}

\* CURRENT_TIMESTAMP: the clock of the store never runs backwards
CurrentTimestamps == {t \in 0..MaxTime : \A u \in StoredTimes : t >= u}

\* mutant: INSERT ... ON DUPLICATE KEY UPDATE, a row for an id no session has
UpdateSessionStatusUpsert(s, reason, t) ==
    [x \in DOMAIN sessions \cup {s} |->
        IF x # s THEN sessions[x]
        ELSE IF s \in DOMAIN sessions
        THEN [sessions[s] EXCEPT !.status = EndStatus(reason), !.end_time = t]
        ELSE [user_email |-> "", strict_mode |-> FALSE, status |-> EndStatus(reason),
              violation_count |-> 0, end_time |-> t]]

\* UPDATE proctoring_sessions SET status = ?, end_time = CURRENT_TIMESTAMP
\* WHERE session_id = ?  (no condition on the current status; no row, no effect)
UpdateSessionStatus(s, reason, t) ==
    IF s \in DOMAIN sessions
    THEN [sessions EXCEPT ![s].status = EndStatus(reason), ![s].end_time = t]
    ELSE sessions

\* terminateSession: the reason endSession receives
TerminateReason(reason) == "terminated_" \o reason

\* ------------------------------------------------------------ the cache
\* activeSessions.set(sessionId, {...sessionData, violations: [], ...})
CacheEntry(sessionData) ==
    [strictMode |-> sessionData.strictMode, violations |-> << >>]

\* session.violations.push({type, severity, ...})
CachePush(m, s, t, sev) ==
    IF s \in DOMAIN m
    THEN [m EXCEPT ![s].violations = Append(@, [type |-> t, severity |-> sev])]
    ELSE m

\* mutant: the threshold check without session.strictMode
ShouldTerminateAnyMode(m, s) ==
    /\ s \in DOMAIN m
    /\ Len(m[s].violations) >= ViolationThreshold

\* session.strictMode && session.violations.length >= 3, on the session the Map
\* returned (undefined: the whole block is skipped)
ShouldTerminate(m, s) ==
    /\ s \in DOMAIN m
    /\ m[s].strictMode
    /\ Len(m[s].violations) >= ViolationThreshold

\* violationCount: session ? session.violations.length : 0
ReturnedCount(m, s) == IF s \in DOMAIN m THEN Len(m[s].violations) ELSE 0

\* ------------------------------------------------------------ handlers
\* the handler of p goes on to its next statement; nothing is sent
Goto(p, l) ==
    /\ pc' = [pc EXCEPT ![p] = l]
    /\ response' = NoResponse

\* res.json(result): the request of p is over, its handler is free for the next one
Send(p, result) ==
    /\ pc' = [pc EXCEPT ![p] = "idle"]
    /\ req' = [req EXCEPT ![p] = NoReq]
    /\ local' = [local EXCEPT ![p] = NoLocal]
    /\ response' = result

\* res.json(result) of the route that served request op on session id s
Ok(op, s, result) == [op |-> op, sessionId |-> s, status |-> 200, body |-> result]

\* the route's catch of a rejected statement: res.status(500).json({error})
Failure(op, s, msg) == [op |-> op, sessionId |-> s, status |-> 500, body |-> [error |-> msg]]

\* mutant: startSession sets the Map entry before the INSERT has succeeded
StartSessionInsertMapFirst(p, s, u, strict) ==
    LET sessionData == [sessionId |-> s, userEmail |-> u, strictMode |-> strict] IN
    /\ pc[p] = "idle"
    /\ activeSessions' = MapSet(activeSessions, s, CacheEntry(sessionData))
    /\ intactSessions' = MapSet(intactSessions, s, CacheEntry(sessionData))
    /\ IF InsertSessionOk(s)
       THEN /\ sessions' = InsertSession(s, sessionData)
            /\ req' = [req EXCEPT ![p] = [op |-> "start", sessionId |-> s,
                                           sessionData |-> sessionData]]
            /\ Goto(p, "start_cache")
       ELSE /\ response' = Failure("start", s, "Failed to start proctoring session")
            /\ UNCHANGED <<sessions, req, pc>>
    /\ UNCHANGED <<violations, local, stats, quizVars, bucketVars, adminVars>>

\* startSession, up to and including the INSERT
StartSessionInsert(p, s, u, strict) ==
    LET sessionData == [sessionId |-> s, userEmail |-> u, strictMode |-> strict] IN
    /\ pc[p] = "idle"
    /\ IF InsertSessionOk(s)
       THEN /\ sessions' = InsertSession(s, sessionData)
            /\ req' = [req EXCEPT ![p] = [op |-> "start", sessionId |-> s,
                                           sessionData |-> sessionData]]
            /\ Goto(p, "start_cache")
       ELSE /\ response' = Failure("start", s, "Failed to start proctoring session")
            /\ UNCHANGED <<sessions, req, pc>>
    /\ UNCHANGED <<violations, activeSessions, intactSessions, local, stats, quizVars, bucketVars, adminVars>>

\* startSession after the INSERT: the Map entry and the result
StartSessionCache(p) ==
    LET s == req[p].sessionId IN
    /\ pc[p] = "start_cache"
    /\ activeSessions' = MapSet(activeSessions, s, CacheEntry(req[p].sessionData))
    /\ intactSessions' = MapSet(intactSessions, s, CacheEntry(req[p].sessionData))
    /\ Send(p, Ok("start", s, [success |-> TRUE, sessionId |-> s]))
    /\ UNCHANGED <<sessions, violations, stats, quizVars, bucketVars, adminVars>>

\* logViolation, up to and including the INSERT of the violation
LogViolationInsert(p, s, t, sev) ==
    /\ pc[p] = "idle"
    /\ Len(violations) < MaxViolations
    /\ IF InsertViolationOk(s)
       THEN /\ violations' = InsertViolation(s, t, sev)
            /\ req' = [req EXCEPT ![p] = [op |-> "log", sessionId |-> s,
                                           violationType |-> t, severity |-> sev]]
            /\ local' = [local EXCEPT ![p] = [insertId |-> Len(violations) + 1]]
            /\ Goto(p, "log_update")
       ELSE /\ response' = Failure("log", s, "Failed to log violation")
            /\ UNCHANGED <<violations, req, local, pc>>
    /\ UNCHANGED <<sessions, activeSessions, intactSessions, stats, quizVars, bucketVars, adminVars>>

\* logViolation: the UPDATE of violation_count
LogViolationUpdate(p) ==
    /\ pc[p] = "log_update"
    /\ sessions' = IncrementViolationCount(req[p].sessionId)
    /\ Goto(p, "log_cache")
    /\ UNCHANGED <<violations, activeSessions, intactSessions, req, local, stats, quizVars, bucketVars, adminVars>>

\* the result of logViolation, { success: true, violationCount }.  With it the
\* model records what the call did: insertId, the row it inserted; terminated,
\* whether it called terminateSession; and intactCount, intactTerminated, the
\* violationCount and the termination of the same call with the Map never emptied
LogResult(p, count, terminated, intactCount, intactTerminated) ==
    Ok("log", req[p].sessionId, [success |-> TRUE, violationCount |-> count])
    @@ [insertId |-> local[p].insertId, terminated |-> terminated,
        intactCount |-> intactCount, intactTerminated |-> intactTerminated]

\* logViolation after the UPDATE: the in-memory session, the strict-mode check
\* and, when the session is not to be terminated, the result
LogViolationCache(p) ==
    LET s == req[p].sessionId
        pushed == CachePush(activeSessions, s, req[p].violationType, req[p].severity)
        intact == CachePush(intactSessions, s, req[p].violationType, req[p].severity)
    IN
    /\ pc[p] = "log_cache"
    /\ activeSessions' = pushed
    /\ intactSessions' = IF ShouldTerminate(intact, s) /\ ~ShouldTerminate(pushed, s)
                         THEN MapDelete(intact, s)
                         ELSE intact
    /\ IF ShouldTerminate(pushed, s)
       THEN /\ local' = [local EXCEPT ![p] =
                           [insertId |-> local[p].insertId,
                            count |-> ReturnedCount(pushed, s),
                            intactCount |-> ReturnedCount(intact, s),
                            intactTerminated |-> ShouldTerminate(intact, s)]]
            /\ Goto(p, "log_terminate")
            /\ UNCHANGED req
       ELSE Send(p, LogResult(p, ReturnedCount(pushed, s), FALSE,
                              ReturnedCount(intact, s), ShouldTerminate(intact, s)))
    /\ UNCHANGED <<sessions, violations, stats, quizVars, bucketVars, adminVars>>

\* terminateSession -> endSession: the UPDATE of the status
LogTerminateUpdate(p, t) ==
    /\ pc[p] = "log_terminate"
    /\ t \in CurrentTimestamps
    /\ sessions' = UpdateSessionStatus(req[p].sessionId, TerminateReason(ThresholdReason), t)
    /\ Goto(p, "log_terminate_delete")
    /\ UNCHANGED <<violations, activeSessions, intactSessions, req, local, stats, quizVars, bucketVars, adminVars>>

\* terminateSession -> endSession after the UPDATE, then the result of logViolation
\* (session still refers to the object taken from the Map before it was removed)
LogTerminateDelete(p) ==
    /\ pc[p] = "log_terminate_delete"
    /\ activeSessions' = MapDelete(activeSessions, req[p].sessionId)
    /\ intactSessions' = MapDelete(intactSessions, req[p].sessionId)
    /\ Send(p, LogResult(p, local[p].count, TRUE,
                         local[p].intactCount, local[p].intactTerminated))
    /\ UNCHANGED <<sessions, violations, stats, quizVars, bucketVars, adminVars>>

\* endSession, up to and including the UPDATE
EndSessionUpdate(p, s, reason, t) ==
    /\ pc[p] = "idle"
    /\ t \in CurrentTimestamps
    /\ req' = [req EXCEPT ![p] = [op |-> "end", sessionId |-> s, reason |-> reason]]
    /\ sessions' = UpdateSessionStatus(s, reason, t)
    /\ Goto(p, "end_delete")
    /\ UNCHANGED <<violations, activeSessions, intactSessions, local, stats, quizVars, bucketVars, adminVars>>

\* endSession after the UPDATE: the Map entry is removed, the result
EndSessionDelete(p) ==
    /\ pc[p] = "end_delete"
    /\ activeSessions' = MapDelete(activeSessions, req[p].sessionId)
    /\ intactSessions' = MapDelete(intactSessions, req[p].sessionId)
    /\ Send(p, Ok("end", req[p].sessionId, [success |-> TRUE, reason |-> req[p].reason]))
    /\ UNCHANGED <<sessions, violations, stats, quizVars, bucketVars, adminVars>>

\* the process restarts between requests: the constructor's new Map()
Restart ==
    /\ \A p \in Procs : pc[p] = "idle"
    /\ activeSessions # << >>
    /\ activeSessions' = << >>
    /\ response' = NoResponse
    /\ UNCHANGED <<sessions, violations, intactSessions, pc, req, local, stats, quizVars, bucketVars, adminVars>>

Next ==
    \/ \E p \in Procs, s \in StartIds, u \in UserEmails, strict \in BOOLEAN :
          StartSessionInsert(p, s, u, strict)
    \/ \E p \in Procs : StartSessionCache(p)
    \/ \E p \in Procs, s \in SessionIds, v \in ViolationInputs :
          LogViolationInsert(p, s, v.violationType, v.severity)
    \/ \E p \in Procs : LogViolationUpdate(p)
    \/ \E p \in Procs : LogViolationCache(p)
    \/ \E p \in Procs, t \in 0..MaxTime : LogTerminateUpdate(p, t)
    \/ \E p \in Procs : LogTerminateDelete(p)
    \/ \E p \in Procs, s \in SessionIds, reason \in Reasons, t \in 0..MaxTime :
          EndSessionUpdate(p, s, reason, t)
    \/ \E p \in Procs : EndSessionDelete(p)
    \/ Restart

Spec == Init /\ [][Next]_vars

\* ------------------------------------------------------------ readers
\* getSession: the session row with COUNT(pv.id) AS total_violations, or null
GetSession(s) ==
    IF s \in DOMAIN sessions
    THEN [session_id       |-> s,
          status           |-> sessions[s].status,
          end_time         |-> sessions[s].end_time,
          violation_count  |-> sessions[s].violation_count,
          total_violations |-> Cardinality(ViolationsOf(s)),
          violations       |-> {violations[i] : i \in ViolationsOf(s)}]
    ELSE [session_id |-> "null"]

\* ------------------------------------------------------------ properties
Terminal(status) == status \in {"completed", "terminated"}

\* this step is the arrival of a logViolation call for session id s: either its
\* INSERT took effect, or the INSERT was refused and the route answered at once
LogCallOn(s) ==
    \/ \E p \in Procs : pc[p] = "idle" /\ pc'[p] = "log_update" /\ req'[p].sessionId = s
    \/ response'.op = "log" /\ response'.sessionId = s /\ pc' = pc

\* this step is the arrival of a startSession call for session id s
StartCallOn(s) ==
    \/ \E p \in Procs : pc[p] = "idle" /\ pc'[p] = "start_cache" /\ req'[p].sessionId = s
    \/ response'.op = "start" /\ response'.sessionId = s /\ pc' = pc

\* this step is the UPDATE of an endSession call a client made for session id s
EndCallOn(s) ==
    \E p \in Procs : pc[p] = "idle" /\ pc'[p] = "end_delete" /\ req'[p].sessionId = s

\* the position among the rows of session s of the violation row with this id
OrdinalOf(s, id) == Cardinality({i \in ViolationsOf(s) : i <= id})

\* C1: once a session's stored status is completed or terminated, no step of any
\* startSession, logViolation or endSession call changes that status.
C1_TerminalStatusIsFinal ==
    [][\A s \in DOMAIN sessions :
          Terminal(sessions[s].status) =>
             s \in DOMAIN sessions' /\ sessions'[s].status = sessions[s].status]_vars

\* C2: endSession is idempotent: an endSession call on a session that has already
\* been ended leaves the stored row (status and end_time) as it was, and is
\* answered with success.
C2_EndSessionIdempotent ==
    [][/\ \A s \in DOMAIN sessions :
             (Terminal(sessions[s].status) /\ EndCallOn(s)) => sessions'[s] = sessions[s]
       /\ response'.op = "end" => response'.status = 200]_vars

\* C3: when the logViolation call that inserted the 3rd violation of a session
\* started with strictMode = true returns, the stored status of the session is
\* terminated, whatever the types and severities of the violations.
C3_ThirdViolationTerminates ==
    (/\ response.op = "log"
     /\ response.status = 200
     /\ sessions[response.sessionId].strict_mode
     /\ OrdinalOf(response.sessionId, response.insertId) = ViolationThreshold)
    => sessions[response.sessionId].status = "terminated"

\* C4: in every state a reader can observe, in-flight logViolation calls included,
\* getSession shows a violation_count equal to the number of violation rows stored
\* for the session.
C4_CountEqualsRecords ==
    \A s \in SessionIds :
        GetSession(s).session_id = s =>
            GetSession(s).violation_count = GetSession(s).total_violations

\* C5: no step removes a session row or lowers its violation_count.
C5_ViolationCountNeverDecreases ==
    [][\A s \in DOMAIN sessions :
          /\ s \in DOMAIN sessions'
          /\ sessions'[s].violation_count >= sessions[s].violation_count]_vars

\* C5 witness: a session whose count was raised twice and which was then ended
C5_Witness ==
    \E s \in DOMAIN sessions :
        sessions[s].violation_count >= 2 /\ Terminal(sessions[s].status)

\* C6: no lost update: in any interleaving, the violation_count of a session plus
\* the number of logViolation calls that have inserted their row and not yet
\* incremented the count equals the number of violation rows of the session; so
\* after two concurrent calls are both past their UPDATE there are two more rows
\* and the count is two higher.
C6_NoLostUpdate ==
    \A s \in DOMAIN sessions :
        sessions[s].violation_count
          + Cardinality({p \in Procs : pc[p] = "log_update" /\ req[p].sessionId = s})
        = Cardinality(ViolationsOf(s))

\* C6 witness: the call that inserted row 1 returns after a concurrent call has
\* inserted row 2 and incremented; both have completed, two rows, count 2
C6_Witness ==
    /\ response.op = "log"
    /\ response.status = 200
    /\ response.insertId = 1
    /\ \A p \in Procs : pc[p] = "idle"
    /\ Cardinality(ViolationsOf(response.sessionId)) = 2
    /\ sessions[response.sessionId].violation_count = 2

\* C7: a logViolation call for a session whose status is completed or terminated
\* is refused: it appends no violation row, leaves the session rows as they are
\* and is answered with an error.
C7_LogOnClosedSessionFails ==
    [][\A s \in DOMAIN sessions :
          (Terminal(sessions[s].status) /\ LogCallOn(s)) =>
             /\ response'.op = "log" /\ response'.status = 500
             /\ violations' = violations
             /\ sessions' = sessions]_vars

C10_CacheIsPureSpeedUp ==
    (response.op = "log" /\ response.status = 200) =>
        /\ response.body.violationCount = response.intactCount
        /\ response.terminated = response.intactTerminated

\* C11: every successful logViolation call returns as violationCount the
\* violation_count stored for the session when the call returns.
C11_ReturnedCountIsStoredCount ==
    (response.op = "log" /\ response.status = 200) =>
        response.body.violationCount = sessions[response.sessionId].violation_count

\* this step is the status UPDATE of the terminateSession call that the
\* logViolation call of some handler made for session id s
AutoTerminateOn(s) ==
    \E p \in Procs : /\ pc[p] = "log_terminate"
                     /\ pc'[p] = "log_terminate_delete"
                     /\ req[p].sessionId = s

\* C12: a stored status leaves active only by the UPDATE of a client's endSession
\* call or by the termination that logViolation makes for a session stored with
\* strict_mode that has 3 or more violations (rows and violation_count); so
\* logViolation never terminates a session with strictMode = false, nor a strict
\* one with fewer than 3 violations.
C12_LeavesActiveOnlyByEndOrThreshold ==
    [][\A s \in DOMAIN sessions :
          (sessions[s].status = "active" /\ sessions'[s].status # "active") =>
             \/ EndCallOn(s)
             \/ /\ AutoTerminateOn(s)
                /\ sessions'[s].status = "terminated"
                /\ sessions[s].strict_mode
                /\ sessions[s].violation_count >= ViolationThreshold
                /\ Cardinality(ViolationsOf(s)) >= ViolationThreshold]_vars

\* C12 witness: logViolation has just terminated a strict session, and no
\* endSession call has been made for it
C12_Witness ==
    \E p \in Procs :
        /\ pc[p] = "log_terminate_delete"
        /\ sessions[req[p].sessionId].status = "terminated"
        /\ sessions[req[p].sessionId].strict_mode
        /\ \A q \in Procs : pc[q] # "end_delete"

\* C13: every stored status is active, completed or terminated, never paused
\* or anything else, and a row that appears has status active.
C13_StatusValues ==
    [][/\ \A s \in DOMAIN sessions' :
             sessions'[s].status \in {"active", "completed", "terminated"}
       /\ \A s \in (DOMAIN sessions') \ (DOMAIN sessions) :
             sessions'[s].status = "active"]_vars

\* C13 witness: endSession with a reason other than 'completed' has returned
C13_Witness ==
    /\ response.op = "end"
    /\ response.body.reason # "completed"
    /\ response.sessionId \in DOMAIN sessions
    /\ sessions[response.sessionId].status = "terminated"

\* C14: violation rows are append-only: no step removes a stored row or
\* changes one of its fields.
C14_ViolationsAppendOnly ==
    [][/\ Len(violations') >= Len(violations)
       /\ \A i \in 1..Len(violations) : violations'[i] = violations[i]]_vars

\* C14 witness: a session with three violation rows has been ended and a
\* further startSession for its id has been refused
C14_Witness ==
    /\ response.op = "start"
    /\ response.status = 500
    /\ Terminal(sessions[response.sessionId].status)
    /\ Cardinality(ViolationsOf(response.sessionId)) >= 3

\* ------------------------------------------------------- getStatistics
\* req.query.timeframe || '24h'
Timeframes == {"24h", "7d", "all"}

\* the sessions the WHERE clause of a query made now may select: all of them
\* without a timeCondition; with one, those whose start_time is in the window,
\* which a session that was outside it at the first query (older) never enters
Windows(timeframe, older) ==
    IF timeframe \in {"24h", "7d"}
    THEN SUBSET ((DOMAIN sessions) \ older)
    ELSE {DOMAIN sessions}

\* status LIKE 'terminated%', over the strings a status can hold
LikeTerminated(status) ==
    status \in {"terminated"} \cup {TerminateReason(r) : r \in Reasons \cup {ThresholdReason}}

RECURSIVE SumViolationCount(_)
SumViolationCount(S) ==
    IF S = {} THEN 0
    ELSE LET s == CHOOSE x \in S : TRUE
         IN sessions[s].violation_count + SumViolationCount(S \ {s})

\* the row of the first query over the sessions in window; AVG over no row is
\* NULL (-1), otherwise a DECIMAL with four decimals, held in ten-thousandths
SessionStats(window) ==
    [total_sessions |-> Cardinality(window),
     active_sessions |-> Cardinality({s \in window : sessions[s].status = "active"}),
     completed_sessions |-> Cardinality({s \in window : sessions[s].status = "completed"}),
     terminated_sessions |-> Cardinality({s \in window : LikeTerminated(sessions[s].status)}),
     flagged_sessions |-> Cardinality({s \in window : sessions[s].violation_count > 0}),
     avg_violations |-> IF window = {} THEN -1
                        ELSE (SumViolationCount(window) * 20000 + Cardinality(window))
                                \div (2 * Cardinality(window))]

\* mutant: the second query without the JOIN and its timeCondition
ViolationStatsAllSessions(window) ==
    LET count(t) == Cardinality({i \in 1..Len(violations) : violations[i].violation_type = t})
        types == {t \in ViolationTypes : count(t) > 0}
    IN CHOOSE rows \in [1..Cardinality(types) -> [violation_type : types, count : 1..Len(violations)]] :
          /\ \A i \in DOMAIN rows : rows[i].count = count(rows[i].violation_type)
          /\ \A i, j \in DOMAIN rows :
                i < j => /\ rows[i].violation_type # rows[j].violation_type
                         /\ rows[i].count >= rows[j].count

\* the rows of the second query: the violations of the sessions in window,
\* GROUP BY violation_type ORDER BY count DESC
ViolationStats(window) ==
    LET count(t) == Cardinality({i \in 1..Len(violations) :
                                    /\ violations[i].session_id \in window
                                    /\ violations[i].violation_type = t})
        types == {t \in ViolationTypes : count(t) > 0}
    IN CHOOSE rows \in [1..Cardinality(types) -> [violation_type : types, count : 1..Len(violations)]] :
          /\ \A i \in DOMAIN rows : rows[i].count = count(rows[i].violation_type)
          /\ \A i, j \in DOMAIN rows :
                i < j => /\ rows[i].violation_type # rows[j].violation_type
                         /\ rows[i].count >= rows[j].count

\* violationStats.reduce((sum, v) => sum + v.count, 0)
RECURSIVE SumCount(_)
SumCount(violationStats) ==
    IF violationStats = << >> THEN 0
    ELSE violationStats[1].count + SumCount(Tail(violationStats))

\* the structure getStatistics returns from its try block; averageViolations is
\* Math.round(avg * 100) / 100, held in hundredths, null * 100 being 0
StatisticsResult(timeframe, sessionStats, violationStats) ==
    [totalSessions |-> sessionStats.total_sessions,
     activeSessions |-> sessionStats.active_sessions,
     completedSessions |-> sessionStats.completed_sessions,
     terminatedSessions |-> sessionStats.terminated_sessions,
     flaggedSessions |-> sessionStats.flagged_sessions,
     totalViolations |-> SumCount(violationStats),
     averageViolations |-> IF sessionStats.avg_violations = -1 THEN 0
                           ELSE (sessionStats.avg_violations + 50) \div 100,
     violationsByType |-> [i \in DOMAIN violationStats |->
                              [type |-> violationStats[i].violation_type,
                               count |-> violationStats[i].count]],
     timeframe |-> timeframe]

\* the structure getStatistics returns from its catch block
StatisticsFallback(timeframe) ==
    [totalSessions |-> 0,
     activeSessions |-> 0,
     flaggedSessions |-> 0,
     totalViolations |-> 0,
     violationsByType |-> << >>,
     timeframe |-> timeframe]

\* res.json(stats) of GET /stats; windowEmpty records whether every query the
\* call made selected no session
StatsResponse(body, windowEmpty) ==
    [op |-> "stats", status |-> 200, body |-> body, windowEmpty |-> windowEmpty]

\* getStatistics up to and including its first query; a rejected query is
\* caught inside getStatistics
GetStatisticsSessions(timeframe, window, ok) ==
    /\ stats.pc = "idle"
    /\ window \in Windows(timeframe, {})
    /\ IF ok
       THEN /\ stats' = [pc |-> "violation_stats", timeframe |-> timeframe,
                         sessionStats |-> SessionStats(window),
                         older |-> (DOMAIN sessions) \ window]
            /\ response' = NoResponse
       ELSE /\ response' = StatsResponse(StatisticsFallback(timeframe), window = {})
            /\ UNCHANGED stats
    /\ UNCHANGED <<proctoringVars, quizVars, bucketVars, adminVars>>

\* getStatistics from its second query to the result
GetStatisticsViolations(window, ok) ==
    /\ stats.pc = "violation_stats"
    /\ window \in Windows(stats.timeframe, stats.older)
    /\ response' = StatsResponse(
          IF ok
          THEN StatisticsResult(stats.timeframe, stats.sessionStats, ViolationStats(window))
          ELSE StatisticsFallback(stats.timeframe),
          stats.sessionStats.total_sessions = 0 /\ window = {})
    /\ stats' = NoStats
    /\ UNCHANGED <<proctoringVars, quizVars, bucketVars, adminVars>>

\* the handler that serves the proctoring requests next to GET /stats
StatsPeers == {"p1"}

NextStats ==
    \/ \E s \in StartIds, u \in UserEmails, strict \in BOOLEAN, p \in StatsPeers :
          StartSessionInsert(p, s, u, strict)
    \/ \E p \in StatsPeers : StartSessionCache(p)
    \/ \E s \in SessionIds, v \in ViolationInputs, p \in StatsPeers :
          LogViolationInsert(p, s, v.violationType, v.severity)
    \/ \E p \in StatsPeers : LogViolationUpdate(p)
    \/ \E p \in StatsPeers : LogViolationCache(p)
    \/ \E t \in 0..MaxTime, p \in StatsPeers : LogTerminateUpdate(p, t)
    \/ \E p \in StatsPeers : LogTerminateDelete(p)
    \/ \E s \in SessionIds, reason \in Reasons, t \in 0..MaxTime, p \in StatsPeers :
          EndSessionUpdate(p, s, reason, t)
    \/ \E p \in StatsPeers : EndSessionDelete(p)
    \/ \E timeframe \in Timeframes, window \in SUBSET SessionIds, ok \in BOOLEAN :
          GetStatisticsSessions(timeframe, window, ok)
    \/ \E window \in SUBSET SessionIds, ok \in BOOLEAN :
          GetStatisticsViolations(window, ok)

SpecStats == Init /\ [][NextStats]_vars

\* C15: every getStatistics call, for timeframe 24h, 7d or all and whatever the
\* store holds or answers, ends with a statistics structure sent with status
\* 200, and when no session fell in the window of its queries every session
\* count and violation count of the structure is zero.
C15_GetStatisticsNeverFails ==
    response.op = "stats" =>
        /\ response.status = 200
        /\ response.body.timeframe \in Timeframes
        /\ {"totalSessions", "activeSessions", "flaggedSessions", "totalViolations",
            "violationsByType"} \subseteq DOMAIN response.body
        /\ response.windowEmpty =>
              /\ response.body.totalSessions = 0
              /\ response.body.activeSessions = 0
              /\ response.body.flaggedSessions = 0
              /\ response.body.totalViolations = 0
              /\ response.body.violationsByType = << >>
              /\ "completedSessions" \in DOMAIN response.body =>
                    /\ response.body.completedSessions = 0
                    /\ response.body.terminatedSessions = 0
                    /\ response.body.averageViolations = 0

\* C15 witness: statistics of a quiet period, computed by both queries while
\* the store holds a session with violations outside the window
C15_Witness ==
    /\ response.op = "stats"
    /\ response.windowEmpty
    /\ "completedSessions" \in DOMAIN response.body
    /\ \E s \in DOMAIN sessions : sessions[s].violation_count > 0
    /\ violations # << >>

\* ------------------------------------------------- quiz randomization
MaxQuestions == 3
MaxOptions == 3
OptionValues == {"a", "b"}

\* an options field that holds a value other than an array
NotAnArray == "not an array"

\* question.options[question.correct] of an index outside the array
Undefined == "undefined"

\* the random draws of one shuffleArray call on n elements: for each index i
\* from n - 1 down to 1, j = Math.floor(Math.random() * (i + 1)) in 0..i
Draws(n) == {js \in [1..(n - 1) -> 0..(n - 1)] : \A i \in 1..(n - 1) : js[i] <= i}

\* [a[i], a[j]] = [a[j], a[i]], indices counted from 0
Swap(a, i, j) == [a EXCEPT ![i + 1] = a[j + 1], ![j + 1] = a[i + 1]]

\* the loop of shuffleArray from index i downwards
RECURSIVE ShuffleFrom(_, _, _)
ShuffleFrom(shuffled, i, js) ==
    IF i <= 0 THEN shuffled
    ELSE ShuffleFrom(Swap(shuffled, i, js[i]), i - 1, js)

\* mutant: the loop assigns shuffled[i] = shuffled[j] without the swap
ShuffleArrayOverwrite(array, js) ==
    LET RECURSIVE OverwriteFrom(_, _)
        OverwriteFrom(shuffled, i) ==
            IF i <= 0 THEN shuffled
            ELSE OverwriteFrom([shuffled EXCEPT ![i + 1] = shuffled[js[i] + 1]], i - 1)
    IN [shuffled |-> OverwriteFrom(array, Len(array) - 1), array |-> array]

\* mutant: the loop runs on array itself, without the copy [...array]
ShuffleArrayInPlace(array, js) ==
    [shuffled |-> ShuffleFrom(array, Len(array) - 1, js),
     array |-> ShuffleFrom(array, Len(array) - 1, js)]

\* shuffleArray(array) under the draws js: the array it returns, and array
\* as the call leaves it
ShuffleArray(array, js) ==
    [shuffled |-> ShuffleFrom(array, Len(array) - 1, js), array |-> array]

\* Array.prototype.indexOf: the first index (from 0) that holds v, or -1
IndexOf(a, v) ==
    IF \E i \in 1..Len(a) : a[i] = v
    THEN (CHOOSE i \in 1..Len(a) : a[i] = v /\ \A k \in 1..(i - 1) : a[k] # v) - 1
    ELSE -1

\* question.options && Array.isArray(question.options)
HasOptions(question) == "options" \in DOMAIN question /\ question.options # NotAnArray

\* question.options[question.correct]
CorrectAnswer(question) ==
    IF "correct" \in DOMAIN question /\ question.correct \in 0..(Len(question.options) - 1)
    THEN question.options[question.correct + 1]
    ELSE Undefined

\* mutant: originalOrder refers to the shuffled copy
SpreadShuffledOrder(question, shuffledOptions, newCorrectIndex, originalOrder) ==
    [f \in (DOMAIN question) \cup {"options", "correct", "originalOrder"} |->
        CASE f = "options" -> shuffledOptions
          [] f = "correct" -> newCorrectIndex
          [] f = "originalOrder" -> shuffledOptions
          [] OTHER -> question[f]]

\* { ...question, options: shuffledOptions, correct: newCorrectIndex,
\*   originalOrder }
Spread(question, shuffledOptions, newCorrectIndex, originalOrder) ==
    [f \in (DOMAIN question) \cup {"options", "correct", "originalOrder"} |->
        CASE f = "options" -> shuffledOptions
          [] f = "correct" -> newCorrectIndex
          [] f = "originalOrder" -> originalOrder
          [] OTHER -> question[f]]

\* mutant: the options are shuffled and correct is left as it was
RandomizeQuestionOptionsKeepCorrect(question, js) ==
    IF ~HasOptions(question)
    THEN [returned |-> question, question |-> question]
    ELSE LET call == ShuffleArray(question.options, js)
         IN [returned |-> Spread(question, call.shuffled, question.correct, call.array),
             question |-> [question EXCEPT !.options = call.array]]

\* mutant: a question without an options array is given an empty one
RandomizeQuestionOptionsFillsOptions(question, js) ==
    IF ~HasOptions(question)
    THEN [returned |-> Spread(question, << >>, -1, << >>), question |-> question]
    ELSE LET correctAnswer == CorrectAnswer(question)
             call == ShuffleArray(question.options, js)
         IN [returned |-> Spread(question, call.shuffled,
                                 IndexOf(call.shuffled, correctAnswer), call.array),
             question |-> [question EXCEPT !.options = call.array]]

\* randomizeQuestionOptions(question) under the draws js: the object it
\* returns, and question as the call leaves it
RandomizeQuestionOptions(question, js) ==
    IF ~HasOptions(question)
    THEN [returned |-> question, question |-> question]
    ELSE LET correctAnswer == CorrectAnswer(question)
             call == ShuffleArray(question.options, js)
         IN [returned |-> Spread(question, call.shuffled,
                                 IndexOf(call.shuffled, correctAnswer), call.array),
             question |-> [question EXCEPT !.options = call.array]]

\* a value in a condition: null and 0 are falsy
Truthy(questionLimit) == questionLimit # Null /\ questionLimit # Num(0)

\* Array.prototype.slice(0, end): a negative end counts from the end
Slice(a, end) ==
    SubSeq(a, 1, IF end < 0 THEN IF Len(a) + end > 0 THEN Len(a) + end ELSE 0
                 ELSE IF end < Len(a) THEN end ELSE Len(a))

\* mutant: the limit is applied without the test questionLimit > 0
LimitAppliesAnySign(questionLimit, length) ==
    /\ Truthy(questionLimit)
    /\ questionLimit[1] < length

\* questionLimit && questionLimit > 0 && questionLimit < processedQuestions.length
LimitApplies(questionLimit, length) ==
    /\ Truthy(questionLimit)
    /\ questionLimit[1] > 0
    /\ questionLimit[1] < length

\* the draws of one randomizeQuiz call: optionDraws[k] for the options of the
\* k-th question, questionDraws for the question order
OptionLength(question) == IF HasOptions(question) THEN Len(question.options) ELSE 0

QuizDraws(qs, randomizeQuestions, randomizeOptions) ==
    LET lengths == {OptionLength(qs[k]) : k \in 1..Len(qs)}
        each == UNION {Draws(n) : n \in lengths}
    IN [optionDraws :
           IF randomizeOptions
           THEN {d \in [1..Len(qs) -> each] :
                    \A k \in 1..Len(qs) : d[k] \in Draws(OptionLength(qs[k]))}
           ELSE {<< >>},
        questionDraws : IF randomizeQuestions THEN Draws(Len(qs)) ELSE {<< >>}]

\* randomizeQuiz(questions, randomizeQuestions, randomizeOptions, questionLimit)
\* under the draws rnd: the array it returns, and questions as the call
\* leaves it (its elements are the objects randomizeQuestionOptions is given)
RandomizeQuiz(qs, randomizeQuestions, randomizeOptions, questionLimit, rnd) ==
    LET copy == qs
        mapped == [k \in 1..Len(copy) |-> RandomizeQuestionOptions(copy[k], rnd.optionDraws[k])]
        afterOptions == IF randomizeOptions
                        THEN [k \in 1..Len(copy) |-> mapped[k].returned]
                        ELSE copy
        afterShuffle == IF randomizeQuestions
                        THEN ShuffleArray(afterOptions, rnd.questionDraws).shuffled
                        ELSE afterOptions
        processedQuestions == IF LimitApplies(questionLimit, Len(afterShuffle))
                              THEN Slice(afterShuffle, questionLimit[1])
                              ELSE afterShuffle
    IN [returned |-> processedQuestions,
        questions |-> IF randomizeOptions
                      THEN [k \in 1..Len(qs) |-> mapped[k].question]
                      ELSE qs]

\* ---------------------------------------------- the callers of randomizeQuiz
\* sequences over S of length at most n
RECURSIVE SeqsUpTo(_, _)
SeqsUpTo(S, n) ==
    IF n = 0 THEN {<< >>}
    ELSE LET shorter == SeqsUpTo(S, n - 1)
         IN shorter \cup {Append(q, x) : q \in shorter, x \in S}

\* the k-th question of a stored quiz: the questions differ in their text, and
\* have two options with the first or the second correct, or no options
StoredQuestion(k) ==
    CASE k % 3 = 1 -> [question |-> k, options |-> <<"a", "b">>, correct |-> 0]
      [] k % 3 = 2 -> [question |-> k, options |-> <<"a", "b">>, correct |-> 1]
      [] OTHER -> [question |-> k]

\* stored quizzes of 0..MaxQuestions questions, and one that holds a question twice
StoredQuizzes ==
    {[k \in 1..n |-> StoredQuestion(k)] : n \in 0..MaxQuestions}
       \cup {<<StoredQuestion(1), StoredQuestion(1)>>}

\* one question with any options over OptionValues, its correct index inside
\* the array or just past it
OptionQuestions ==
    {[question |-> 1, options |-> o, correct |-> c] :
        <<o, c>> \in {oc \in SeqsUpTo(OptionValues, MaxOptions) \X (0..MaxOptions) :
                         oc[2] <= Len(oc[1])}}

\* a question whose options field is not an array, alone and between others
MalformedQuestion == [question |-> 0, options |-> NotAnArray, correct |-> 0]
DegenerateQuizzes ==
    {<<MalformedQuestion>>,
     <<StoredQuestion(1), MalformedQuestion, StoredQuestion(3)>>}

QuizInputs == StoredQuizzes \cup {<<q>> : q \in OptionQuestions} \cup DegenerateQuizzes

QuestionLimits == {Null} \cup {Num(n) : n \in (-1)..(MaxQuestions + 1)}

QuizSettings ==
    [randomizeQuestions : BOOLEAN, randomizeOptions : BOOLEAN,
     questionLimit : QuestionLimits]

\* the fields of a randomization config
SettingsFields == {"randomizeQuestions", "randomizeOptions", "questionLimit"}

\* stored configs that lack fields: {} as POST /api/admin/quizzes/from-bucket
\* stores it for a request without randomization_settings, and two more
PartialSettings ==
    {<< >>, [questionLimit |-> Num(2)], [randomizeOptions |-> TRUE]}

\* what the questions column can hold: the text of an array of questions (or
\* the array, returned parsed), text that is not JSON, the text of a JSON
\* value that is not an array, and such a value returned parsed
PayloadKinds == {"array", "unparseable", "object_text", "object"}

\* JSON.parse of the text of a value that is not an array, as res.json sends it
NotAList == "{}"

\* a quiz whose row has been read
QuizInit ==
    /\ ProctoringInit
    /\ \/ payload = "array" /\ questions \in QuizInputs
       \/ payload \in PayloadKinds \ {"array"} /\ questions = << >>
    /\ settings \in QuizSettings \cup PartialSettings
    /\ delivered = << >>
    /\ applied = NoSettings
    /\ quizPc = "idle"
    /\ query = NoQuery
    /\ quizResponse = NoQuizResponse
    /\ BucketIdle
    /\ AdminIdle

\* randomizeQuiz called with the settings as its arguments
CallRandomizeQuiz ==
    /\ quizPc = "idle"
    /\ payload = "array"
    /\ DOMAIN settings = SettingsFields
    /\ \E rnd \in QuizDraws(questions, settings.randomizeQuestions, settings.randomizeOptions) :
          LET call == RandomizeQuiz(questions, settings.randomizeQuestions,
                                    settings.randomizeOptions, settings.questionLimit, rnd)
          IN /\ delivered' = call.returned
             /\ questions' = call.questions
    /\ quizPc' = "returned"
    /\ UNCHANGED <<adminVars, bucketVars, proctoringVars, response, stats, settings, applied, payload, query,
                   quizResponse>>

\* requests without query parameters, with one of them, and one that asks
\* for randomized options under a session id
Queries ==
    {NoQuery, [NoQuery EXCEPT !.randomize_options = Param("true"),
                              !.session_id = Param("s1")]}
       \cup {[NoQuery EXCEPT !.randomize_questions = Param(s)] : s \in {"true", "false"}}
       \cup {[NoQuery EXCEPT !.randomize_options = Param(s)] : s \in {"true", "false"}}
       \cup {[NoQuery EXCEPT !.question_limit = Param(s)] : s \in {"", "0", "2"}}

\* parseInt of a decimal string
ParseInt(s) == CASE s = "0" -> 0 [] s = "1" -> 1 [] s = "2" -> 2 [] s = "3" -> 3

\* req.query.question_limit ? ... : the parameter is there and not empty
LimitGiven(q) == q.question_limit # Absent /\ q.question_limit # Param("")

\* randomizeQuestions, randomizeOptions, questionLimit of the route: the
\* query parameter, or else the field of randomizationSettings, which after
\* JSON.parse is the stored object and has the fields that object has
EffectiveSettings(q) ==
    LET given == {f \in SettingsFields :
                     \/ f = "randomizeQuestions" /\ q.randomize_questions # Absent
                     \/ f = "randomizeOptions" /\ q.randomize_options # Absent
                     \/ f = "questionLimit" /\ LimitGiven(q)}
    IN [f \in given \cup DOMAIN settings |->
           CASE f = "randomizeQuestions" /\ f \in given -> q.randomize_questions = Param("true")
             [] f = "randomizeOptions" /\ f \in given -> q.randomize_options = Param("true")
             [] f = "questionLimit" /\ f \in given -> Num(ParseInt(q.question_limit[1]))
             [] OTHER -> settings[f]]

\* a flag in a condition: undefined is falsy
Flag(s, f) == f \in DOMAIN s /\ s[f]
\* questionLimit in a condition or as an argument: undefined acts as null
LimitOf(s) == IF "questionLimit" \in DOMAIN s THEN s.questionLimit ELSE Null
\* a flag passed as an argument: undefined takes the parameter's default, true
FlagArgument(s, f) == IF f \in DOMAIN s THEN s[f] ELSE TRUE

\* mutant: randomizeQuiz is called only when a shuffle is requested
RandomizationRequestedShuffleOnly(s) ==
    Flag(s, "randomizeQuestions") \/ Flag(s, "randomizeOptions")

\* if (randomizeQuestions || randomizeOptions || questionLimit)
RandomizationRequested(s) ==
    Flag(s, "randomizeQuestions") \/ Flag(s, "randomizeOptions") \/ Truthy(LimitOf(s))

\* the fields of the body of res.json in the try block and in its catch
ResponseFields ==
    {"name", "description", "questions", "pointsPerQuestion", "isCustom",
     "randomizationApplied", "proctoringSettings"}

\* mutant: the variant delivered is kept as the questions of the quiz
GetQuizKeepsVariant(q) ==
    LET s == EffectiveSettings(q)
        rq == FlagArgument(s, "randomizeQuestions")
        ro == FlagArgument(s, "randomizeOptions")
    IN
    /\ quizPc = "idle"
    /\ payload = "array"
    /\ \E rnd \in QuizDraws(questions, rq, ro) :
          /\ delivered' = RandomizeQuiz(questions, rq, ro, LimitOf(s), rnd).returned
          /\ questions' = delivered'
    /\ applied' = s
    /\ query' = q
    /\ quizResponse' = [status |-> 200, body |-> ResponseFields]
    /\ quizPc' = "sent"
    /\ UNCHANGED <<adminVars, bucketVars, proctoringVars, response, stats, settings, payload>>

\* GET /api/quizzes/:id from the quiz row to res.json
GetQuiz(q) ==
    LET s == EffectiveSettings(q)
        rq == FlagArgument(s, "randomizeQuestions")
        ro == FlagArgument(s, "randomizeOptions")
        Fallback == /\ delivered' = << >>
                    /\ applied' = NoSettings
                    /\ UNCHANGED questions
    IN
    /\ quizPc = "idle"
    /\ CASE payload = "unparseable" -> Fallback
         [] payload = "object_text" ->
               IF RandomizationRequested(s)
               THEN Fallback
               ELSE /\ delivered' = NotAList
                    /\ applied' = s
                    /\ UNCHANGED questions
         [] payload = "object" ->
               /\ delivered' = << >>
               /\ applied' = s
               /\ UNCHANGED questions
         [] OTHER ->
               /\ IF RandomizationRequested(s)
                  THEN \E rnd \in QuizDraws(questions, rq, ro) :
                          LET call == RandomizeQuiz(questions, rq, ro, LimitOf(s), rnd)
                          IN /\ delivered' = call.returned
                             /\ questions' = call.questions
                  ELSE /\ delivered' = questions
                       /\ UNCHANGED questions
               /\ applied' = s
    /\ query' = q
    /\ quizResponse' = [status |-> 200, body |-> ResponseFields]
    /\ quizPc' = "sent"
    /\ UNCHANGED <<adminVars, bucketVars, proctoringVars, response, stats, settings, payload>>

\* the request is over: what the handler held is gone, the quiz row stays
QuizRequestEnds ==
    /\ quizPc = "sent"
    /\ delivered' = << >>
    /\ applied' = NoSettings
    /\ query' = NoQuery
    /\ quizResponse' = NoQuizResponse
    /\ quizPc' = "idle"
    /\ UNCHANGED <<adminVars, bucketVars, proctoringVars, response, stats, questions, settings, payload>>

QuizNext ==
    \/ CallRandomizeQuiz
    \/ \E q \in Queries : GetQuiz(q)
    \/ QuizRequestEnds

SpecQuiz == QuizInit /\ [][QuizNext]_vars

\* ------------------------------------------- properties of randomization
\* a and b hold the same values the same number of times
SameMultiset(a, b) ==
    /\ Len(a) = Len(b)
    /\ \A i \in 1..Len(a) :
          Cardinality({k \in 1..Len(a) : a[k] = a[i]})
             = Cardinality({k \in 1..Len(b) : b[k] = a[i]})

\* the correct index of question is inside its options array
CorrectInside(question) ==
    /\ HasOptions(question)
    /\ "correct" \in DOMAIN question
    /\ question.correct \in 0..(Len(question.options) - 1)

\* r is the input question q as randomizeQuiz hands it on: q itself, or, when
\* its options were randomized, q with its options permuted, the correct
\* index at the same value, and originalOrder added
Randomized(r, q, randomizeOptions) ==
    IF randomizeOptions /\ HasOptions(q)
    THEN /\ DOMAIN r = (DOMAIN q) \cup {"options", "correct", "originalOrder"}
         /\ \A f \in (DOMAIN q) \ {"options", "correct", "originalOrder"} : r[f] = q[f]
         /\ SameMultiset(r.options, q.options)
         /\ r.originalOrder = q.options
         /\ CorrectInside(q) =>
               /\ CorrectInside(r)
               /\ r.options[r.correct + 1] = q.options[q.correct + 1]
    ELSE r = q

\* the one-to-one maps from 1..m into 1..n
Injections(m, n) == {f \in [1..m -> 1..n] : \A i, j \in 1..m : f[i] = f[j] => i = j}

\* this step is a call of randomizeQuiz by itself, with settings as arguments
RandomizeQuizReturns == quizPc = "idle" /\ quizPc' = "returned"

\* C16: for every question with an options array and its correct index inside
\* the array, the options that option randomization returns are a permutation
\* (same multiset) of the question's options, and the option at the new
\* correct index has the value of the option at the old correct index.
C16_OptionsPermutedCorrectKept ==
    [][(/\ RandomizeQuizReturns
        /\ settings.randomizeOptions
        /\ ~settings.randomizeQuestions
        /\ ~LimitApplies(settings.questionLimit, Len(questions)))
       => /\ Len(delivered') = Len(questions)
          /\ \A k \in 1..Len(questions) :
                CorrectInside(questions[k]) =>
                   /\ SameMultiset(delivered'[k].options, questions[k].options)
                   /\ delivered'[k].correct \in 0..(Len(delivered'[k].options) - 1)
                   /\ delivered'[k].options[delivered'[k].correct + 1]
                         = questions[k].options[questions[k].correct + 1]]_vars

\* C16 witness: a question whose options hold one value twice came back with
\* its options in another order and another correct index
C16_Witness ==
    /\ quizPc = "returned"
    /\ settings.randomizeOptions /\ ~settings.randomizeQuestions
    /\ Len(questions) = 1 /\ Len(delivered) = 1
    /\ CorrectInside(questions[1])
    /\ Len(questions[1].options) = 3
    /\ questions[1].options[1] = questions[1].options[2]
    /\ delivered[1].options # questions[1].options
    /\ delivered[1].correct # questions[1].correct

\* C17: randomizeQuiz with randomizeQuestions = true and a questionLimit that
\* is absent, not positive, or at least the list length (the length itself
\* included) returns, whatever the random draws, a permutation of the input
\* list: every input question exactly once, as it is when randomizeOptions is
\* off, with its own options randomized when it is on.
C17_ShuffleIsPermutation ==
    [][(/\ RandomizeQuizReturns
        /\ settings.randomizeQuestions
        /\ ~(/\ settings.questionLimit # Null
             /\ settings.questionLimit[1] > 0
             /\ settings.questionLimit[1] < Len(questions)))
       => /\ Len(delivered') = Len(questions)
          /\ \E f \in Injections(Len(questions), Len(questions)) :
                \A k \in 1..Len(questions) :
                   Randomized(delivered'[k], questions[f[k]], settings.randomizeOptions)]_vars

\* C17 witness: three questions passed with questionLimit 3 came back all
\* three, the first one no longer first
C17_Witness ==
    /\ quizPc = "returned"
    /\ settings.randomizeQuestions /\ ~settings.randomizeOptions
    /\ settings.questionLimit = Num(3)
    /\ Len(questions) = 3 /\ Len(delivered) = 3
    /\ delivered[1] # questions[1]
    /\ delivered[3] = questions[1]

\* C18: randomizeQuiz on n questions returns exactly questionLimit questions,
\* the first questionLimit of a sequence the call without limit can return,
\* when questionLimit is a positive integer below n, and n questions when
\* questionLimit is absent, <= 0 or >= n; what it returns are distinct input
\* questions, none invented and none used twice.
C18_LimitTruncatesAfterShuffle ==
    [][RandomizeQuizReturns =>
          LET n == Len(questions)
              limit == settings.questionLimit
          IN /\ IF limit # Null /\ limit[1] > 0 /\ limit[1] < n
                THEN /\ Len(delivered') = limit[1]
                     /\ \E rnd \in QuizDraws(questions, settings.randomizeQuestions,
                                             settings.randomizeOptions) :
                           delivered' = SubSeq(RandomizeQuiz(questions,
                                                  settings.randomizeQuestions,
                                                  settings.randomizeOptions,
                                                  Null, rnd).returned, 1, limit[1])
                ELSE Len(delivered') = n
             /\ \E f \in Injections(Len(delivered'), n) :
                   \A k \in 1..Len(delivered') :
                      Randomized(delivered'[k], questions[f[k]], settings.randomizeOptions)]_vars

\* C18 witness: three different questions with questionLimit 2 and the
\* question shuffle on: two came back, the first of them not the first stored
C18_Witness ==
    /\ quizPc = "returned"
    /\ settings.randomizeQuestions
    /\ settings.questionLimit = Num(2)
    /\ Len(questions) = 3
    /\ Cardinality({questions[k] : k \in 1..3}) = 3
    /\ Len(delivered) = 2
    /\ delivered[1].question = questions[3].question

\* C19: GET /api/quizzes/:id with randomizeQuestions = false and a
\* questionLimit L, 0 < L < n, delivers the first L stored questions in their
\* stored order, each as stored when randomizeOptions is false and with its
\* options permuted and its correct index adjusted when it is true.
C19_LimitWithoutShuffleKeepsOrder ==
    [][(/\ quizPc = "idle" /\ quizPc' = "sent"
        /\ payload = "array"
        /\ DOMAIN applied' = SettingsFields
        /\ ~applied'.randomizeQuestions
        /\ applied'.questionLimit # Null
        /\ applied'.questionLimit[1] > 0
        /\ applied'.questionLimit[1] < Len(questions))
       => /\ Len(delivered') = applied'.questionLimit[1]
          /\ \A k \in 1..Len(delivered') :
                Randomized(delivered'[k], questions[k], applied'.randomizeOptions)]_vars

\* C19 witness: three stored questions delivered with the limit 2 and option
\* randomization only: the first two, the options of the first reordered
C19_Witness ==
    /\ quizPc = "sent"
    /\ payload = "array"
    /\ DOMAIN applied = SettingsFields
    /\ ~applied.randomizeQuestions /\ applied.randomizeOptions
    /\ applied.questionLimit = Num(2)
    /\ Len(questions) = 3 /\ Len(delivered) = 2
    /\ HasOptions(questions[1])
    /\ delivered[1].question = questions[1].question
    /\ delivered[1].options # questions[1].options
    /\ delivered[1].correct # questions[1].correct

\* C20: a call of randomizeQuiz, by itself or by the route, with any
\* combination of randomizeQuestions, randomizeOptions and questionLimit,
\* leaves its input as it was: the question sequence, every question's
\* options sequence and every question's correct index.
C20_InputNotMutated ==
    [][(quizPc = "idle" /\ quizPc' # "idle") => questions' = questions]_vars

\* C20 witness: a call with both shuffles on and an effective limit returned
\* a question with its options reordered
C20_Witness ==
    /\ quizPc = "returned"
    /\ settings.randomizeQuestions /\ settings.randomizeOptions
    /\ LimitApplies(settings.questionLimit, Len(questions))
    /\ \E k \in 1..Len(delivered) :
          /\ HasOptions(delivered[k])
          /\ delivered[k].options # delivered[k].originalOrder

\* C21: whenever option randomization is applied to a question that has an
\* options array, the returned question has a field originalOrder equal to
\* the question's options before the shuffle, and the value at the returned
\* correct index is found in originalOrder at the question's own correct index.
C21_OriginalOrderRecorded ==
    [][(/\ RandomizeQuizReturns
        /\ settings.randomizeOptions
        /\ ~settings.randomizeQuestions
        /\ ~LimitApplies(settings.questionLimit, Len(questions)))
       => \A k \in 1..Len(questions) :
             HasOptions(questions[k]) =>
                /\ "originalOrder" \in DOMAIN delivered'[k]
                /\ delivered'[k].originalOrder = questions[k].options
                /\ CorrectInside(questions[k]) =>
                      delivered'[k].originalOrder[questions[k].correct + 1]
                         = delivered'[k].options[delivered'[k].correct + 1]]_vars

\* C21 witness: a question came back with three options in another order
\* than the originalOrder it carries
C21_Witness ==
    /\ quizPc = "returned"
    /\ settings.randomizeOptions /\ ~settings.randomizeQuestions
    /\ Len(delivered) = 1
    /\ HasOptions(delivered[1])
    /\ Len(delivered[1].originalOrder) = 3
    /\ delivered[1].originalOrder = questions[1].options
    /\ delivered[1].options # delivered[1].originalOrder

\* C22: randomizeQuiz returns on degenerate input: for an empty list the
\* empty list, and with option randomization a question whose options field
\* is absent or not an array comes back as it was, while the questions with
\* an options array are randomized.
C22_DegenerateInputPassesThrough ==
    [][RandomizeQuizReturns =>
          /\ questions = << >> => delivered' = << >>
          /\ (/\ settings.randomizeOptions
              /\ ~settings.randomizeQuestions
              /\ ~LimitApplies(settings.questionLimit, Len(questions)))
             => /\ Len(delivered') = Len(questions)
                /\ \A k \in 1..Len(questions) :
                      IF HasOptions(questions[k])
                      THEN Randomized(delivered'[k], questions[k], TRUE)
                      ELSE delivered'[k] = questions[k]]_vars

\* C22 witness: a list with a question without options and one whose options
\* are not an array came back with another question's options reordered
C22_Witness ==
    /\ quizPc = "returned"
    /\ settings.randomizeOptions /\ ~settings.randomizeQuestions
    /\ Len(delivered) = 3
    /\ delivered[2] = MalformedQuestion
    /\ "options" \notin DOMAIN delivered[3]
    /\ delivered[1].options # questions[1].options

\* the config the delivery of the quiz row under query q is to use, resolved
\* field by field: the override, else the stored field, else false/false/null
Resolved(q, stored) ==
    [randomizeQuestions |->
        IF q.randomize_questions # Absent THEN q.randomize_questions = Param("true")
        ELSE IF "randomizeQuestions" \in DOMAIN stored THEN stored.randomizeQuestions
        ELSE FALSE,
     randomizeOptions |->
        IF q.randomize_options # Absent THEN q.randomize_options = Param("true")
        ELSE IF "randomizeOptions" \in DOMAIN stored THEN stored.randomizeOptions
        ELSE FALSE,
     questionLimit |->
        IF LimitGiven(q) THEN Num(ParseInt(q.question_limit[1]))
        ELSE IF "questionLimit" \in DOMAIN stored THEN stored.questionLimit
        ELSE Null]

\* C23: a delivery uses the config resolved field by field (the override if
\* present, else the stored field, else false / false / null): what it
\* delivers is what randomizeQuiz returns under that config, and with
\* false / false / null it is the stored questions in content and order.
C23_ConfigResolvedFieldByField ==
    [][(quizPc = "idle" /\ quizPc' = "sent" /\ payload = "array") =>
          LET c == Resolved(query', settings)
          IN IF ~c.randomizeQuestions /\ ~c.randomizeOptions /\ c.questionLimit = Null
             THEN delivered' = questions
             ELSE \E rnd \in QuizDraws(questions, c.randomizeQuestions, c.randomizeOptions) :
                     delivered' = RandomizeQuiz(questions, c.randomizeQuestions,
                                                c.randomizeOptions, c.questionLimit,
                                                rnd).returned]_vars

\* C24: a delivery of a quiz whose questions column is corrupt (not JSON, or
\* not an array of questions) answers 200 with an empty question list and
\* the flag hasError.
C24_CorruptPayloadFlagged ==
    (quizPc = "sent" /\ payload # "array") =>
        /\ quizResponse.status = 200
        /\ delivered = << >>
        /\ "hasError" \in quizResponse.body

\* C25: a delivery, whatever the quiz, the overrides and the session id,
\* leaves the quiz row (questions, config) and the proctoring tables as they
\* were, and when the request is over nothing of the variant remains.
C25_DeliveryIsStateless ==
    [][/\ (quizPc = "idle" /\ quizPc' = "sent") =>
             /\ questions' = questions
             /\ settings' = settings
             /\ payload' = payload
             /\ sessions' = sessions
             /\ violations' = violations
       /\ (quizPc = "sent" /\ quizPc' = "idle") =>
             /\ <<questions', settings', payload', sessions', violations'>>
                   = <<questions, settings, payload, sessions, violations>>
             /\ <<delivered', applied', query', quizResponse'>>
                   = <<<< >>, NoSettings, NoQuery, NoQuizResponse>>]_vars

\* C25 witness: a variant with reordered options was delivered under a
\* session id, and no proctoring row exists
C25_Witness ==
    /\ quizPc = "sent"
    /\ payload = "array"
    /\ query.session_id = Param("s1")
    /\ Len(questions) = 3
    /\ delivered # questions
    /\ sessions = << >> /\ violations = << >>

\* ---------------------------------------------------------------------------
\* Question buckets: questions of a bucket, its counts, quizzes composed from it
\* ---------------------------------------------------------------------------

\* ids the requests name: bucket 1 exists, bucket 2 does not
BucketIds == {1, 2}
\* ids AUTO_INCREMENT hands out to the rows of table questions
QuestionIds == {1, 2}
QuizIds == {"z1"}
\* difficulty ENUM('easy', 'medium', 'hard')
Difficulties == {"easy", "medium", "hard"}
\* what the requests send as difficulty
DifficultyInputs == {"easy", "medium", "expert"}
\* question_text, options and correct_answer of the request bodies
Contents ==
    { [question_text |-> "t1", options |-> <<"a", "b">>, correct_answer |-> 0],
      [question_text |-> "t2", options |-> <<"b", "c", "a">>, correct_answer |-> 2] }
\* easyCount, mediumCount and hardCount of the request bodies
Quotas ==
    { [easyCount |-> 1, mediumCount |-> 0, hardCount |-> 0],
      [easyCount |-> 2, mediumCount |-> 0, hardCount |-> 0],
      [easyCount |-> 0, mediumCount |-> 0, hardCount |-> 1] }

\* SUM(...) over no row is NULL
NullCount == -1

\* indexes of the rows WHERE bucket_id = b AND is_active = TRUE
ActiveIndexes(rows, b) ==
    {i \in 1..Len(rows) : rows[i].bucket_id = b /\ rows[i].is_active}

\* SUM(CASE WHEN difficulty = d THEN 1 ELSE 0 END) over the rows at idx
SumDifficulty(rows, idx, d) ==
    IF idx = {} THEN NullCount
    ELSE Cardinality({i \in idx : rows[i].difficulty = d})

\* the row the SELECT of updateBucketCounts returns
CountsSelected(rows, b) ==
    LET idx == ActiveIndexes(rows, b)
    IN  [total_questions |-> Cardinality(idx),
         easy_count   |-> SumDifficulty(rows, idx, "easy"),
         medium_count |-> SumDifficulty(rows, idx, "medium"),
         hard_count   |-> SumDifficulty(rows, idx, "hard")]

\* indexes of the rows WHERE id = id
RowsWithId(rows, id) == {i \in 1..Len(rows) : rows[i].id = id}

\* rows without those whose id is in ids
RECURSIVE RemoveRows(_, _)
RemoveRows(rows, ids) ==
    IF rows = << >> THEN << >>
    ELSE IF Head(rows).id \in ids THEN RemoveRows(Tail(rows), ids)
    ELSE <<Head(rows)>> \o RemoveRows(Tail(rows), ids)

\* the options of a question sent in a request are JSON text or an array;
\* JSON.parse(x) throws unless x is JSON text: an array is first turned into "a,b"
JsonParseThrows(x) == x.kind # "text"
JsonParse(x) == x.value

\* a row as a request carries it: options as the column's JSON text, or (as
\* GET /api/admin/buckets/:id answers it) parsed
SentRow(row, asText) ==
    [row EXCEPT !.options = [kind |-> IF asText THEN "text" ELSE "array",
                             value |-> row.options]]

\* the order-preserving selections of the elements of s
RECURSIVE SubSeqs(_)
SubSeqs(s) ==
    IF s = << >> THEN {<< >>}
    ELSE LET rest == SubSeqs(Tail(s))
         IN  rest \cup {<<Head(s)>> \o r : r \in rest}

\* the active rows of bucket b
RECURSIVE ActiveRows(_, _)
ActiveRows(rows, b) ==
    IF rows = << >> THEN << >>
    ELSE IF Head(rows).bucket_id = b /\ Head(rows).is_active
         THEN <<Head(rows)>> \o ActiveRows(Tail(rows), b)
         ELSE ActiveRows(Tail(rows), b)

\* mutant: the quiz question without the field correct
QuizQuestionWithoutCorrect(q) ==
    [q EXCEPT !.options = JsonParse(q.options)]

\* ({...q, options: JSON.parse(q.options), correct: q.correct_answer})
QuizQuestion(q) ==
    [f \in DOMAIN q \cup {"correct"} |->
        IF f = "options" THEN JsonParse(q.options)
        ELSE IF f = "correct" THEN q.correct_answer
        ELSE q[f]]

QuizQuestions(selected) == [k \in 1..Len(selected) |-> QuizQuestion(selected[k])]

BucketRequest(op, id, bucketId) ==
    [op |-> op, id |-> id, bucketId |-> bucketId, counts |-> NewBucket, found |-> FALSE,
     countsError |-> FALSE]

BucketResponse(op, status, body) == [op |-> op, status |-> status, body |-> body]

\* POST /api/admin/buckets/:id/questions up to the INSERT
AddQuestion(h, b, content, difficulty) ==
    /\ bucketPc[h] = "idle"
    /\ IF difficulty \notin Difficulties
       THEN /\ bucketResponse' = BucketResponse("add", 400, "Difficulty must be one of: easy, medium, hard.")
            /\ UNCHANGED <<questionRows, questionSeq, bucketPc, bucketReq>>
       ELSE IF b \notin DOMAIN buckets
       THEN /\ bucketResponse' = BucketResponse("add", 500, "Failed to add question")
            /\ UNCHANGED <<questionRows, questionSeq, bucketPc, bucketReq>>
       ELSE /\ questionSeq + 1 \in QuestionIds
            /\ questionSeq' = questionSeq + 1
            /\ questionRows' = Append(questionRows,
                   [id |-> questionSeq + 1, bucket_id |-> b,
                    question_text |-> content.question_text, options |-> content.options,
                    correct_answer |-> content.correct_answer,
                    difficulty |-> difficulty, is_active |-> TRUE])
            /\ bucketReq' = [bucketReq EXCEPT ![h] = BucketRequest("add", questionSeq + 1, b)]
            /\ bucketPc' = [bucketPc EXCEPT ![h] = "counts_select"]
            /\ bucketResponse' = NoResponse
    /\ UNCHANGED <<buckets, quizRows, mappings>>
    /\ UNCHANGED <<proctoringVars, response, stats, quizVars, adminVars>>

\* mutant: the UPDATE also rewrites the question inside the quizzes holding it
UpdateQuestionSyncsQuizzes(h, id, content, difficulty, is_active) ==
    /\ bucketPc[h] = "idle"
    /\ IF RowsWithId(questionRows, id) = {}
       THEN /\ bucketResponse' = BucketResponse("update", 404, "Question not found")
            /\ UNCHANGED <<questionRows, quizRows, bucketPc, bucketReq>>
       ELSE /\ questionRows' =
                [i \in 1..Len(questionRows) |->
                    IF questionRows[i].id = id
                    THEN [questionRows[i] EXCEPT
                              !.question_text = content.question_text,
                              !.options = content.options,
                              !.correct_answer = content.correct_answer,
                              !.difficulty = difficulty,
                              !.is_active = is_active]
                    ELSE questionRows[i]]
            /\ quizRows' =
                [z \in DOMAIN quizRows |->
                    [quizRows[z] EXCEPT !.questions =
                        [k \in 1..Len(quizRows[z].questions) |->
                            IF quizRows[z].questions[k].id = id
                            THEN [quizRows[z].questions[k] EXCEPT
                                      !.question_text = content.question_text,
                                      !.options = content.options,
                                      !.correct_answer = content.correct_answer,
                                      !.correct = content.correct_answer,
                                      !.difficulty = difficulty,
                                      !.is_active = is_active]
                            ELSE quizRows[z].questions[k]]]]
            /\ bucketReq' = [bucketReq EXCEPT ![h] = BucketRequest("update", id, 0)]
            /\ bucketPc' = [bucketPc EXCEPT ![h] = "find_bucket"]
            /\ bucketResponse' = NoResponse
    /\ UNCHANGED <<questionSeq, buckets, mappings>>
    /\ UNCHANGED <<proctoringVars, response, stats, quizVars, adminVars>>

\* PUT /api/admin/questions/:id up to the UPDATE
UpdateQuestion(h, id, content, difficulty, is_active) ==
    /\ bucketPc[h] = "idle"
    /\ IF RowsWithId(questionRows, id) = {}
       THEN /\ bucketResponse' = BucketResponse("update", 404, "Question not found")
            /\ UNCHANGED <<questionRows, bucketPc, bucketReq>>
       ELSE /\ questionRows' =
                [i \in 1..Len(questionRows) |->
                    IF questionRows[i].id = id
                    THEN [questionRows[i] EXCEPT
                              !.question_text = content.question_text,
                              !.options = content.options,
                              !.correct_answer = content.correct_answer,
                              !.difficulty = difficulty,
                              !.is_active = is_active]
                    ELSE questionRows[i]]
            /\ bucketReq' = [bucketReq EXCEPT ![h] = BucketRequest("update", id, 0)]
            /\ bucketPc' = [bucketPc EXCEPT ![h] = "find_bucket"]
            /\ bucketResponse' = NoResponse
    /\ UNCHANGED <<questionSeq, buckets, quizRows, mappings>>
    /\ UNCHANGED <<proctoringVars, response, stats, quizVars, adminVars>>

\* SELECT bucket_id FROM questions WHERE id = ? of the PUT route, and what
\* follows it up to the SELECT of updateBucketCounts
UpdateFindBucket(h) ==
    /\ bucketPc[h] = "find_bucket"
    /\ LET found == RowsWithId(questionRows, bucketReq[h].id)
       IN  IF found = {}
           THEN /\ bucketResponse' = BucketResponse("update", 200, "Question updated successfully")
                /\ bucketPc' = [bucketPc EXCEPT ![h] = "idle"]
                /\ bucketReq' = [bucketReq EXCEPT ![h] = NoReq]
           ELSE /\ bucketReq' = [bucketReq EXCEPT
                       ![h].bucketId = questionRows[CHOOSE i \in found : TRUE].bucket_id,
                       ![h].found = TRUE]
                /\ bucketPc' = [bucketPc EXCEPT ![h] = "counts_select"]
                /\ bucketResponse' = NoResponse
    /\ UNCHANGED <<questionRows, questionSeq, buckets, quizRows, mappings>>
    /\ UNCHANGED <<proctoringVars, response, stats, quizVars, adminVars>>

\* DELETE /api/admin/questions/:id: SELECT bucket_id FROM questions WHERE id = ?
DeleteQuestion(h, id) ==
    /\ bucketPc[h] = "idle"
    /\ LET found == RowsWithId(questionRows, id)
       IN  bucketReq' = [bucketReq EXCEPT ![h] =
               [BucketRequest("delete", id, 0) EXCEPT
                   !.bucketId = IF found = {} THEN 0
                                ELSE questionRows[CHOOSE i \in found : TRUE].bucket_id,
                   !.found = found # {}]]
    /\ bucketPc' = [bucketPc EXCEPT ![h] = "delete"]
    /\ bucketResponse' = NoResponse
    /\ UNCHANGED <<questionRows, questionSeq, buckets, quizRows, mappings>>
    /\ UNCHANGED <<proctoringVars, response, stats, quizVars, adminVars>>

\* DELETE FROM questions WHERE id = ?, and what follows it
DeleteRow(h) ==
    /\ bucketPc[h] = "delete"
    /\ questionRows' = RemoveRows(questionRows, {bucketReq[h].id})
    /\ IF RowsWithId(questionRows, bucketReq[h].id) = {}
       THEN /\ bucketResponse' = BucketResponse("delete", 404, "Question not found")
            /\ bucketPc' = [bucketPc EXCEPT ![h] = "idle"]
            /\ bucketReq' = [bucketReq EXCEPT ![h] = NoReq]
       ELSE IF bucketReq[h].found
       THEN /\ bucketPc' = [bucketPc EXCEPT ![h] = "counts_select"]
            /\ bucketResponse' = NoResponse
            /\ UNCHANGED bucketReq
       ELSE /\ bucketResponse' = BucketResponse("delete", 200, "Question deleted successfully")
            /\ bucketPc' = [bucketPc EXCEPT ![h] = "idle"]
            /\ bucketReq' = [bucketReq EXCEPT ![h] = NoReq]
    /\ UNCHANGED <<questionSeq, buckets, quizRows, mappings>>
    /\ UNCHANGED <<proctoringVars, response, stats, quizVars, adminVars>>

\* updateBucketCounts: the SELECT of the counts
CountsSelect(h) ==
    /\ bucketPc[h] = "counts_select"
    /\ bucketReq' = [bucketReq EXCEPT ![h].counts = CountsSelected(questionRows, bucketReq[h].bucketId)]
    /\ bucketPc' = [bucketPc EXCEPT ![h] = "counts_update"]
    /\ bucketResponse' = NoResponse
    /\ UNCHANGED <<questionRows, questionSeq, buckets, quizRows, mappings>>
    /\ UNCHANGED <<proctoringVars, response, stats, quizVars, adminVars>>

\* updateBucketCounts: the UPDATE of question_buckets, and the caller's
\* continuation up to its next statement or its response
CountsUpdate(h) ==
    /\ bucketPc[h] = "counts_update"
    /\ buckets' = [b \in DOMAIN buckets |->
                      IF b = bucketReq[h].bucketId THEN bucketReq[h].counts ELSE buckets[b]]
    /\ IF bucketReq[h].op = "add"
       THEN /\ bucketPc' = [bucketPc EXCEPT ![h] = "add_select"]
            /\ bucketResponse' = NoResponse
            /\ UNCHANGED bucketReq
       ELSE /\ bucketPc' = [bucketPc EXCEPT ![h] = "idle"]
            /\ bucketReq' = [bucketReq EXCEPT ![h] = NoReq]
            /\ bucketResponse' =
                   BucketResponse(bucketReq[h].op, 200,
                       IF bucketReq[h].op = "update" THEN "Question updated successfully"
                       ELSE "Question deleted successfully")
    /\ UNCHANGED <<questionRows, questionSeq, quizRows, mappings>>
    /\ UNCHANGED <<proctoringVars, response, stats, quizVars, adminVars>>

\* POST /api/admin/buckets/:id/questions: SELECT * FROM questions WHERE id = ?
\* and the response
AddQuestionRespond(h) ==
    /\ bucketPc[h] = "add_select"
    /\ bucketResponse' = BucketResponse("add", 200, "Question added successfully")
    /\ bucketPc' = [bucketPc EXCEPT ![h] = "idle"]
    /\ bucketReq' = [bucketReq EXCEPT ![h] = NoReq]
    /\ UNCHANGED <<questionRows, questionSeq, buckets, quizRows, mappings>>
    /\ UNCHANGED <<proctoringVars, response, stats, quizVars, adminVars>>

\* POST /api/admin/quizzes/from-bucket up to INSERT INTO quizzes
CreateQuizFromBucket(h, quizId, bucketId, quota, selectedQuestions) ==
    /\ bucketPc[h] = "idle"
    /\ IF \E k \in 1..Len(selectedQuestions) : JsonParseThrows(selectedQuestions[k].options)
       THEN /\ bucketResponse' = BucketResponse("compose", 500, "Failed to create quiz from bucket")
            /\ UNCHANGED <<quizRows, bucketPc, bucketReq>>
       ELSE IF quizId \in DOMAIN quizRows
       THEN /\ bucketResponse' = BucketResponse("compose", 400, "Quiz with this ID already exists")
            /\ UNCHANGED <<quizRows, bucketPc, bucketReq>>
       ELSE /\ quizRows' = [z \in DOMAIN quizRows \cup {quizId} |->
                               IF z = quizId
                               THEN [questions |-> QuizQuestions(selectedQuestions),
                                     is_custom |-> TRUE]
                               ELSE quizRows[z]]
            /\ bucketReq' = [bucketReq EXCEPT ![h] =
                   [op |-> "compose", quizId |-> quizId, bucketId |-> bucketId,
                    quota |-> quota, selectedQuestions |-> selectedQuestions]]
            /\ bucketPc' = [bucketPc EXCEPT ![h] = "insert_mapping"]
            /\ bucketResponse' = NoResponse
    /\ UNCHANGED <<questionRows, questionSeq, buckets, mappings>>
    /\ UNCHANGED <<proctoringVars, response, stats, quizVars, adminVars>>

\* the row of quiz_bucket_mappings of a request; totalQuestions is the sum the
\* client sends with the quotas
MappingRow(quizId, bucketId, quota) ==
    [quiz_id |-> quizId, bucket_id |-> bucketId,
     easy_count |-> quota.easyCount, medium_count |-> quota.mediumCount,
     hard_count |-> quota.hardCount,
     total_questions |-> quota.easyCount + quota.mediumCount + quota.hardCount]

\* INSERT INTO quiz_bucket_mappings and the response; bucket_id is a foreign key
InsertMapping(h) ==
    /\ bucketPc[h] = "insert_mapping"
    /\ IF bucketReq[h].bucketId \notin DOMAIN buckets
       THEN /\ bucketResponse' = BucketResponse("compose", 500, "Failed to create quiz from bucket")
            /\ UNCHANGED mappings
       ELSE /\ mappings' = mappings \cup
                   {MappingRow(bucketReq[h].quizId, bucketReq[h].bucketId, bucketReq[h].quota)}
            /\ bucketResponse' = BucketResponse("compose", 200, "Quiz created successfully from bucket")
    /\ bucketPc' = [bucketPc EXCEPT ![h] = "idle"]
    /\ bucketReq' = [bucketReq EXCEPT ![h] = NoReq]
    /\ UNCHANGED <<questionRows, questionSeq, buckets, quizRows>>
    /\ UNCHANGED <<proctoringVars, response, stats, quizVars, adminVars>>

\* what a client sends as selectedQuestions: nothing, or a selection of the
\* questions GET /api/admin/buckets/:id lists, their options parsed or as text
SelectedQuestions(bucketId) ==
    {<< >>} \cup
    { [k \in 1..Len(s) |-> SentRow(s[k], asText)] :
          s \in SubSeqs(ActiveRows(questionRows, bucketId)), asText \in BOOLEAN }

\* requests served one after the other
OneHandler == {"h1"}

BucketNext ==
    \/ \E h \in OneHandler, b \in BucketIds, c \in Contents, d \in DifficultyInputs :
           AddQuestion(h, b, c, d)
    \/ \E h \in OneHandler, id \in QuestionIds, c \in Contents,
          d \in DifficultyInputs \cap Difficulties, a \in BOOLEAN :
           UpdateQuestion(h, id, c, d, a)
    \/ \E h \in OneHandler : UpdateFindBucket(h)
    \/ \E h \in OneHandler, id \in QuestionIds : DeleteQuestion(h, id)
    \/ \E h \in OneHandler : DeleteRow(h)
    \/ \E h \in OneHandler : CountsSelect(h)
    \/ \E h \in OneHandler : CountsUpdate(h)
    \/ \E h \in OneHandler : AddQuestionRespond(h)
    \/ \E h \in OneHandler, z \in QuizIds, b \in BucketIds, quota \in Quotas :
           \E selected \in SelectedQuestions(b) : CreateQuizFromBucket(h, z, b, quota, selected)
    \/ \E h \in OneHandler : InsertMapping(h)

SpecBucket == Init /\ [][BucketNext]_vars

\* the count a quota asks for the difficulty d
QuotaOf(quota, d) ==
    CASE d = "easy" -> quota.easyCount
      [] d = "medium" -> quota.mediumCount
      [] d = "hard" -> quota.hardCount

\* the number of active questions of difficulty d the bucket b holds
ActiveOfDifficulty(rows, b, d) ==
    Cardinality({i \in ActiveIndexes(rows, b) : rows[i].difficulty = d})

\* the tiers of which the bucket b holds fewer active questions than quota asks
DeficientTiers(rows, b, quota) ==
    {d \in Difficulties : ActiveOfDifficulty(rows, b, d) < QuotaOf(quota, d)}

\* C26: a composition request whose bucket holds fewer active questions of some
\* difficulty than the count requested for it creates no quiz and no mapping.
C26_InsufficientBucketRejected ==
    [][ \A h \in BucketHandlers :
        /\ (/\ bucketPc[h] = "idle"
            /\ bucketPc'[h] = "insert_mapping"
            /\ DeficientTiers(questionRows, bucketReq'[h].bucketId, bucketReq'[h].quota) # {})
           => quizRows' = quizRows
        /\ (/\ bucketPc[h] = "insert_mapping"
            /\ DeficientTiers(questionRows, bucketReq[h].bucketId, bucketReq[h].quota) # {})
           => mappings' = mappings ]_vars

\* C27: when a composition succeeds, the quiz holds exactly the requested number
\* of questions of each difficulty, all distinct and all active questions of the
\* named bucket, and the mapping records the bucket and the quotas.
C27_ComposedQuizMeetsQuotas ==
    [][ \A h \in BucketHandlers :
        (bucketPc[h] = "insert_mapping" /\ bucketPc'[h] = "idle"
            /\ bucketResponse'.status = 200) =>
          LET qs == quizRows'[bucketReq[h].quizId].questions
              b  == bucketReq[h].bucketId
          IN  /\ \A d \in Difficulties :
                    Cardinality({k \in 1..Len(qs) : qs[k].difficulty = d})
                        = QuotaOf(bucketReq[h].quota, d)
              /\ \A j, k \in 1..Len(qs) : qs[j].id = qs[k].id => j = k
              /\ \A k \in 1..Len(qs) :
                    \E i \in ActiveIndexes(questionRows, b) : questionRows[i].id = qs[k].id
              /\ MappingRow(bucketReq[h].quizId, b, bucketReq[h].quota) \in mappings' ]_vars

C29_QuizIsSnapshot ==
    [][ quizRows' # quizRows =>
          \E h \in BucketHandlers : bucketPc[h] = "idle" /\ bucketPc'[h] = "insert_mapping" ]_vars

\* a composed quiz holds a question the bucket now holds changed, and another
\* the bucket no longer holds, after an update and a delete completed
C29_Witness ==
    /\ "z1" \in DOMAIN quizRows
    /\ \A h \in BucketHandlers : bucketPc[h] = "idle"
    /\ bucketResponse.op = "delete" /\ bucketResponse.status = 200
    /\ LET qs == quizRows["z1"].questions
       IN  /\ Len(qs) = 2
           /\ RowsWithId(questionRows, qs[2].id) = {}
           /\ \E i \in RowsWithId(questionRows, qs[1].id) :
                 /\ questionRows[i].options # qs[1].options
                 /\ questionRows[i].correct_answer # qs[1].correct

\* C30: when an add, update or delete of a bucket question has completed, the
\* stored counts of every bucket add up and equal the numbers of active
\* questions the bucket holds.
C30_BucketCountsLive ==
    (bucketResponse.op \in {"add", "update", "delete"} /\ bucketResponse.status = 200) =>
        \A b \in DOMAIN buckets :
            /\ buckets[b].total_questions
                   = buckets[b].easy_count + buckets[b].medium_count + buckets[b].hard_count
            /\ buckets[b].total_questions = Cardinality(ActiveIndexes(questionRows, b))
            /\ buckets[b].easy_count = ActiveOfDifficulty(questionRows, b, "easy")
            /\ buckets[b].medium_count = ActiveOfDifficulty(questionRows, b, "medium")
            /\ buckets[b].hard_count = ActiveOfDifficulty(questionRows, b, "hard")

\* ---------------------------------------------------------------------------
\* Sessions: how they end, the cache against the store
\* ---------------------------------------------------------------------------

\* C35: endSession on an active session stores status completed for the reason
\* 'completed' (the value an omitted reason takes) and terminated for any other
\* reason, the reason of the automatic termination included; it stores an end
\* time, and when it returns the session is not in the cache.
C35_EndSessionStatus ==
    [][ \A p \in Procs :
          /\ (/\ pc[p] = "idle" /\ pc'[p] = "end_delete"
              /\ req'[p].sessionId \in DOMAIN sessions
              /\ sessions[req'[p].sessionId].status = "active")
             => /\ sessions'[req'[p].sessionId].status =
                       (IF req'[p].reason = "completed" THEN "completed" ELSE "terminated")
                /\ sessions'[req'[p].sessionId].end_time # -1
          /\ (/\ pc[p] = "log_terminate" /\ pc'[p] = "log_terminate_delete"
              /\ sessions[req[p].sessionId].status = "active")
             => /\ sessions'[req[p].sessionId].status = "terminated"
                /\ sessions'[req[p].sessionId].end_time # -1
          /\ (pc[p] \in {"end_delete", "log_terminate_delete"} /\ pc'[p] = "idle")
             => req[p].sessionId \notin DOMAIN activeSessions' ]_vars

\* endSession with another reason than 'completed' has returned: the session,
\* which was active and cached, is terminated and no longer cached
C35_Witness ==
    /\ response.op = "end" /\ response.status = 200
    /\ response.body.reason = "user_exit"
    /\ response.sessionId \in DOMAIN sessions
    /\ sessions[response.sessionId].status = "terminated"
    /\ sessions[response.sessionId].violation_count > 0
    /\ response.sessionId \notin DOMAIN activeSessions

\* C38: whenever no call is under way, every session in the cache is stored
\* with status active.
C38_CacheHoldsActiveSessions ==
    (\A p \in Procs : pc[p] = "idle") =>
        \A s \in DOMAIN activeSessions :
            s \in DOMAIN sessions /\ sessions[s].status = "active"

\* C40: a stored session has an end time exactly when its status is completed
\* or terminated, and endSession on an id no session has stores no session.
C40_EndTimeIffEnded ==
    /\ [](\A s \in DOMAIN sessions :
             sessions[s].end_time # -1 <=> sessions[s].status \in {"completed", "terminated"})
    /\ [][ \A p \in Procs :
             (pc[p] = "idle" /\ pc'[p] = "end_delete") => DOMAIN sessions' = DOMAIN sessions ]_vars

\* endSession on an id no session has returned, next to an ended and counted session
C40_Witness ==
    /\ response.op = "end" /\ response.status = 200
    /\ response.sessionId \notin DOMAIN sessions
    /\ \E s \in DOMAIN sessions : sessions[s].end_time # -1 /\ sessions[s].violation_count > 0

\* ---------------------------------------------------------------------------
\* logViolation when the store rejects a statement
\* ---------------------------------------------------------------------------

\* mutant: the counter is incremented before the violation is inserted
LogViolationInsertFailsCounted(p, s, t, sev) ==
    /\ pc[p] = "idle"
    /\ sessions' = IncrementViolationCount(s)
    /\ response' = Failure("log", s, "Failed to log violation")
    /\ UNCHANGED <<violations, activeSessions, intactSessions, pc, req, local,
                   stats, quizVars, bucketVars, adminVars>>

\* logViolation: the store rejects the INSERT of the violation (connection lost,
\* deadlock, ...); the catch rethrows and the route answers 500
LogViolationInsertFails(p, s, t, sev) ==
    /\ pc[p] = "idle"
    /\ response' = Failure("log", s, "Failed to log violation")
    /\ UNCHANGED <<sessions, violations, activeSessions, intactSessions, pc, req, local,
                   stats, quizVars, bucketVars, adminVars>>

\* logViolation: the store rejects the UPDATE of violation_count, after the
\* violation was inserted; the catch rethrows and the route answers 500
LogViolationUpdateFails(p) ==
    /\ pc[p] = "log_update"
    /\ Send(p, Failure("log", req[p].sessionId, "Failed to log violation"))
    /\ UNCHANGED <<sessions, violations, activeSessions, intactSessions,
                   stats, quizVars, bucketVars, adminVars>>

NextFaults ==
    \/ \E s \in StartIds, u \in UserEmails, strict \in BOOLEAN, p \in StatsPeers :
          StartSessionInsert(p, s, u, strict)
    \/ \E p \in StatsPeers : StartSessionCache(p)
    \/ \E s \in SessionIds, v \in ViolationInputs, p \in StatsPeers :
          LogViolationInsert(p, s, v.violationType, v.severity)
    \/ \E s \in SessionIds, v \in ViolationInputs, p \in StatsPeers :
          LogViolationInsertFails(p, s, v.violationType, v.severity)
    \/ \E p \in StatsPeers : LogViolationUpdate(p)
    \/ \E p \in StatsPeers : LogViolationUpdateFails(p)
    \/ \E p \in StatsPeers : LogViolationCache(p)
    \/ \E t \in 0..MaxTime, p \in StatsPeers : LogTerminateUpdate(p, t)
    \/ \E p \in StatsPeers : LogTerminateDelete(p)
    \/ \E s \in SessionIds, reason \in Reasons, t \in 0..MaxTime, p \in StatsPeers :
          EndSessionUpdate(p, s, reason, t)
    \/ \E p \in StatsPeers : EndSessionDelete(p)

SpecFaults == Init /\ [][NextFaults]_vars

\* C39: a logViolation call that fails at the insert of the violation record
\* leaves the stored sessions (count and status), the stored violations and the
\* cache as they were.
C39_FailedAppendChangesNothing ==
    [][ (/\ \A p \in Procs : pc[p] = "idle"
         /\ response'.op = "log"
         /\ response'.status = 500)
        => /\ sessions' = sessions
           /\ violations' = violations
           /\ activeSessions' = activeSessions ]_vars

\* the insert failed for an active, cached session that already has a violation
C39_Witness ==
    /\ response.op = "log" /\ response.status = 500
    /\ response.sessionId \in DOMAIN sessions
    /\ sessions[response.sessionId].status = "active"
    /\ sessions[response.sessionId].violation_count = 1
    /\ Len(violations) = 1
    /\ response.sessionId \in DOMAIN activeSessions
    /\ Len(activeSessions[response.sessionId].violations) = 1

\* ---------------------------------------------------------------------------
\* Question mutations of one bucket served concurrently
\* ---------------------------------------------------------------------------

RaceNext ==
    \/ \E h \in BucketHandlers, b \in BucketIds, c \in Contents, d \in DifficultyInputs :
           AddQuestion(h, b, c, d)
    \/ \E h \in BucketHandlers, id \in QuestionIds, c \in Contents,
          d \in DifficultyInputs \cap Difficulties, a \in BOOLEAN :
           UpdateQuestion(h, id, c, d, a)
    \/ \E h \in BucketHandlers : UpdateFindBucket(h)
    \/ \E h \in BucketHandlers, id \in QuestionIds : DeleteQuestion(h, id)
    \/ \E h \in BucketHandlers : DeleteRow(h)
    \/ \E h \in BucketHandlers : CountsSelect(h)
    \/ \E h \in BucketHandlers : CountsUpdate(h)
    \/ \E h \in BucketHandlers : AddQuestionRespond(h)

SpecRace == Init /\ [][RaceNext]_vars

\* a count read back from the store, a NULL sum taken as 0
CountOrZero(n) == IF n = NullCount THEN 0 ELSE n

\* C31: once the concurrent question mutations of a bucket have all completed,
\* its stored counts (a NULL sum read as 0) are the numbers of active questions
\* it holds, in total and of each difficulty.
C31_CountsLiveAfterConcurrentMutations ==
    (\A h \in BucketHandlers : bucketPc[h] = "idle") =>
        \A b \in DOMAIN buckets :
            /\ buckets[b].total_questions = Cardinality(ActiveIndexes(questionRows, b))
            /\ CountOrZero(buckets[b].easy_count) = ActiveOfDifficulty(questionRows, b, "easy")
            /\ CountOrZero(buckets[b].medium_count) = ActiveOfDifficulty(questionRows, b, "medium")
            /\ CountOrZero(buckets[b].hard_count) = ActiveOfDifficulty(questionRows, b, "hard")

\* ---------------------------------------------------------------------------
\* updateBucketCounts when the store rejects a statement
\* ---------------------------------------------------------------------------

\* updateBucketCounts: the store rejects the SELECT or the UPDATE; the catch
\* logs the error (countsError) and the function returns to its caller, which
\* goes on as after a recomputation
CountsFails(h) ==
    /\ bucketPc[h] \in {"counts_select", "counts_update"}
    /\ IF bucketReq[h].op = "add"
       THEN /\ bucketPc' = [bucketPc EXCEPT ![h] = "add_select"]
            /\ bucketResponse' = NoResponse
            /\ bucketReq' = [bucketReq EXCEPT ![h].countsError = TRUE]
       ELSE /\ bucketPc' = [bucketPc EXCEPT ![h] = "idle"]
            /\ bucketReq' = [bucketReq EXCEPT ![h] = NoReq]
            /\ bucketResponse' =
                   BucketResponse(bucketReq[h].op, 200,
                       IF bucketReq[h].op = "update" THEN "Question updated successfully"
                       ELSE "Question deleted successfully")
    /\ UNCHANGED <<questionRows, questionSeq, buckets, quizRows, mappings>>
    /\ UNCHANGED <<proctoringVars, response, stats, quizVars, adminVars>>

CountFaultsNext ==
    \/ \E h \in OneHandler, b \in BucketIds, c \in Contents, d \in DifficultyInputs :
           AddQuestion(h, b, c, d)
    \/ \E h \in OneHandler, id \in QuestionIds, c \in Contents,
          d \in DifficultyInputs \cap Difficulties, a \in BOOLEAN :
           UpdateQuestion(h, id, c, d, a)
    \/ \E h \in OneHandler : UpdateFindBucket(h)
    \/ \E h \in OneHandler, id \in QuestionIds : DeleteQuestion(h, id)
    \/ \E h \in OneHandler : DeleteRow(h)
    \/ \E h \in OneHandler : CountsSelect(h)
    \/ \E h \in OneHandler : CountsUpdate(h)
    \/ \E h \in OneHandler : CountsFails(h)
    \/ \E h \in OneHandler : AddQuestionRespond(h)

SpecCountFaults == Init /\ [][CountFaultsNext]_vars

\* C34: a question mutation during which the recomputation of the bucket
\* counts failed in the store is answered with a failure, never with success.
C34_CountFailureReported ==
    [][ \A h \in BucketHandlers :
          (/\ bucketPc[h] # "idle" /\ bucketPc'[h] = "idle"
           /\ CountsFails(h) \/ bucketReq[h].countsError)
          => bucketResponse'.status >= 500 ]_vars

\* ---------------------------------------------------------------------------
\* Quiz administration: quizzes and their inline questions
\* ---------------------------------------------------------------------------

\* the longest inline question list a request builds
MaxInline == 3

\* inline questions of the request bodies; the second has correct outside its options
InlineQuestions ==
    { [question |-> "q1", options |-> <<"a", "b">>, correct |-> 0],
      [question |-> "q2", options |-> <<"a", "b">>, correct |-> 2] }

\* insertDefaultQuizzes: a seeded quiz, is_custom false
DefaultQuizzes ==
    [z \in {"d1"} |->
        [questions |-> <<[question |-> "q1", options |-> <<"a", "b">>, correct |-> 0]>>,
         is_custom |-> FALSE]]

\* quiz ids the requests name
AdminQuizIds == {"d1", "c1"}

\* req.params.index
IndexParams == {"-1", "0", "1", "2", "3", "abc"}

\* NaN
NotANumber == << >>

\* parseInt(req.params.index)
ParseIndex(s) ==
    CASE s = "-1" -> Num(-1)
      [] s \in {"0", "1", "2", "3"} -> Num(ParseInt(s))
      [] OTHER -> NotANumber

\* questionIndex < 0 || questionIndex >= questions.length: false for NaN
IndexOutOfRange(index, list) ==
    index # NotANumber /\ (index[1] < 0 \/ index[1] >= Len(list))

\* questions[questionIndex] = q, as JSON.stringify then writes the array: the
\* property "NaN" of an array is not written
ArraySet(list, index, q) ==
    IF index = NotANumber THEN list
    ELSE [k \in 1..Len(list) |-> IF k = index[1] + 1 THEN q ELSE list[k]]

\* questions.splice(questionIndex, 1): a start of NaN is 0
Splice(list, index) ==
    LET start == IF index = NotANumber THEN 0 ELSE index[1]
    IN  [k \in 1..(Len(list) - 1) |->
            IF k <= start THEN list[k] ELSE list[k + 1]]

AdminRequest(op, id, index, list) ==
    [op |-> op, id |-> id, index |-> index, questions |-> list]

AdminResponse(op, id, index, status) ==
    [op |-> op, id |-> id, index |-> index, status |-> status]

\* one of the routes on the inline questions of quiz id, up to its UPDATE:
\* SELECT questions FROM quizzes WHERE id = ?, answered 404 without a row, else
\* the list changed(current) is what the UPDATE will write
ReadThenWrite(h, op, id, index, refused, changed) ==
    /\ IF id \notin DOMAIN quizRows \/ refused
       THEN /\ adminResponse' = AdminResponse(op, id, index, 404)
            /\ UNCHANGED <<adminPc, adminReq>>
       ELSE /\ Len(changed) <= MaxInline
            /\ adminReq' = [adminReq EXCEPT ![h] = AdminRequest(op, id, index, changed)]
            /\ adminPc' = [adminPc EXCEPT ![h] = "update"]
            /\ adminResponse' = NoResponse
    /\ UNCHANGED quizRows
    /\ UNCHANGED <<questionRows, questionSeq, buckets, mappings, bucketPc, bucketReq,
                   bucketResponse>>
    /\ UNCHANGED <<proctoringVars, response, stats, quizVars>>

\* the questions column of quiz id as the route parses it
StoredQuestions(id) == IF id \in DOMAIN quizRows THEN quizRows[id].questions ELSE << >>

\* POST /api/quizzes/:id/questions/single up to the UPDATE
AddSingle(h, id, q) ==
    /\ adminPc[h] = "idle"
    /\ ReadThenWrite(h, "add", id, NotANumber, FALSE, Append(StoredQuestions(id), q))

\* POST /api/quizzes/:id/questions up to the UPDATE
AddMany(h, id, qs) ==
    /\ adminPc[h] = "idle"
    /\ ReadThenWrite(h, "add", id, NotANumber, FALSE, StoredQuestions(id) \o qs)

\* PUT /api/quizzes/:id/questions/:index up to the UPDATE
UpdateAt(h, id, param, q) ==
    /\ adminPc[h] = "idle"
    /\ ReadThenWrite(h, "updateAt", id, ParseIndex(param),
                     IndexOutOfRange(ParseIndex(param), StoredQuestions(id)),
                     ArraySet(StoredQuestions(id), ParseIndex(param), q))

\* DELETE /api/quizzes/:id/questions/:index up to the UPDATE
DeleteAt(h, id, param) ==
    /\ adminPc[h] = "idle"
    /\ ReadThenWrite(h, "deleteAt", id, ParseIndex(param),
                     IndexOutOfRange(ParseIndex(param), StoredQuestions(id)),
                     IF StoredQuestions(id) = << >> THEN << >>
                     ELSE Splice(StoredQuestions(id), ParseIndex(param)))

\* UPDATE quizzes SET questions = ? WHERE id = ? (no row, no effect) and the
\* response of the route
WriteQuestions(h) ==
    /\ adminPc[h] = "update"
    /\ quizRows' = [z \in DOMAIN quizRows |->
                       IF z = adminReq[h].id
                       THEN [quizRows[z] EXCEPT !.questions = adminReq[h].questions]
                       ELSE quizRows[z]]
    /\ adminResponse' = AdminResponse(adminReq[h].op, adminReq[h].id, adminReq[h].index, 200)
    /\ adminPc' = [adminPc EXCEPT ![h] = "idle"]
    /\ adminReq' = [adminReq EXCEPT ![h] = NoReq]
    /\ UNCHANGED <<questionRows, questionSeq, buckets, mappings, bucketPc, bucketReq,
                   bucketResponse>>
    /\ UNCHANGED <<proctoringVars, response, stats, quizVars>>

\* the server starts on an empty table quizzes: insertDefaultQuizzes
InsertDefaultQuizzes ==
    /\ quizRows = << >>
    /\ \A h \in AdminHandlers : adminPc[h] = "idle"
    /\ quizRows' = DefaultQuizzes
    /\ adminResponse' = NoResponse
    /\ UNCHANGED <<adminPc, adminReq>>
    /\ UNCHANGED <<questionRows, questionSeq, buckets, mappings, bucketPc, bucketReq,
                   bucketResponse>>
    /\ UNCHANGED <<proctoringVars, response, stats, quizVars>>

\* POST /api/quizzes: the questions array is stored as sent
CreateQuiz(id, list) ==
    /\ IF id \in DOMAIN quizRows
       THEN /\ adminResponse' = AdminResponse("create", id, NotANumber, 400)
            /\ UNCHANGED quizRows
       ELSE /\ quizRows' = [z \in DOMAIN quizRows \cup {id} |->
                               IF z = id THEN [questions |-> list, is_custom |-> TRUE]
                               ELSE quizRows[z]]
            /\ adminResponse' = AdminResponse("create", id, NotANumber, 201)
    /\ UNCHANGED <<adminPc, adminReq>>
    /\ UNCHANGED <<questionRows, questionSeq, buckets, mappings, bucketPc, bucketReq,
                   bucketResponse>>
    /\ UNCHANGED <<proctoringVars, response, stats, quizVars>>

\* PUT /api/quizzes/:id: UPDATE quizzes SET ... questions = ? WHERE id = ?
UpdateQuiz(id, list) ==
    /\ IF id \in DOMAIN quizRows
       THEN /\ quizRows' = [quizRows EXCEPT ![id].questions = list]
            /\ adminResponse' = AdminResponse("update", id, NotANumber, 200)
       ELSE /\ adminResponse' = AdminResponse("update", id, NotANumber, 404)
            /\ UNCHANGED quizRows
    /\ UNCHANGED <<adminPc, adminReq>>
    /\ UNCHANGED <<questionRows, questionSeq, buckets, mappings, bucketPc, bucketReq,
                   bucketResponse>>
    /\ UNCHANGED <<proctoringVars, response, stats, quizVars>>

\* DELETE /api/quizzes/:id: DELETE FROM quizzes WHERE id = ? AND is_custom = TRUE
DeleteQuiz(id) ==
    /\ IF id \in DOMAIN quizRows /\ quizRows[id].is_custom
       THEN /\ quizRows' = [z \in DOMAIN quizRows \ {id} |-> quizRows[z]]
            /\ adminResponse' = AdminResponse("delete", id, NotANumber, 200)
       ELSE /\ adminResponse' = AdminResponse("delete", id, NotANumber, 404)
            /\ UNCHANGED quizRows
    /\ UNCHANGED <<adminPc, adminReq>>
    /\ UNCHANGED <<questionRows, questionSeq, buckets, mappings, bucketPc, bucketReq,
                   bucketResponse>>
    /\ UNCHANGED <<proctoringVars, response, stats, quizVars>>

\* DELETE /api/admin/quizzes/all: DELETE FROM quizzes
DeleteAllQuizzes ==
    /\ quizRows # << >>
    /\ quizRows' = << >>
    /\ adminResponse' = AdminResponse("deleteAll", "", NotANumber, 200)
    /\ UNCHANGED <<adminPc, adminReq>>
    /\ UNCHANGED <<questionRows, questionSeq, buckets, mappings, bucketPc, bucketReq,
                   bucketResponse>>
    /\ UNCHANGED <<proctoringVars, response, stats, quizVars>>

\* requests served one after the other
OneAdmin == {"a1"}

\* question lists of the request bodies
InlineLists == {<< >>} \cup {<<q>> : q \in InlineQuestions}

AdminNext ==
    \/ InsertDefaultQuizzes
    \/ \E id \in AdminQuizIds, qs \in InlineLists : CreateQuiz(id, qs)
    \/ \E id \in AdminQuizIds, qs \in InlineLists : UpdateQuiz(id, qs)
    \/ \E id \in AdminQuizIds : DeleteQuiz(id)
    \/ DeleteAllQuizzes
    \/ \E h \in OneAdmin, id \in AdminQuizIds, q \in InlineQuestions : AddSingle(h, id, q)
    \/ \E h \in OneAdmin, id \in AdminQuizIds, qs \in InlineLists : AddMany(h, id, qs)
    \/ \E h \in OneAdmin, id \in AdminQuizIds, param \in IndexParams, q \in InlineQuestions :
           UpdateAt(h, id, param, q)
    \/ \E h \in OneAdmin, id \in AdminQuizIds, param \in IndexParams : DeleteAt(h, id, param)
    \/ \E h \in OneAdmin : WriteQuestions(h)

SpecAdmin == Init /\ [][AdminNext]_vars

\* the two handlers adding questions to a quiz, their reads and writes interleaved
InlineRaceNext ==
    \/ InsertDefaultQuizzes
    \/ \E h \in AdminHandlers, id \in AdminQuizIds, q \in InlineQuestions : AddSingle(h, id, q)
    \/ \E h \in AdminHandlers, id \in AdminQuizIds, qs \in InlineLists : AddMany(h, id, qs)
    \/ \E h \in AdminHandlers : WriteQuestions(h)

SpecInlineRace == Init /\ [][InlineRaceNext]_vars

\* C32: a default quiz (is_custom false) that is stored stays stored over every
\* quiz administration step, and DELETE /api/quizzes/:id on it is answered with
\* an error.
C32_DefaultQuizKept ==
    [][ /\ \A z \in DOMAIN quizRows :
              ~quizRows[z].is_custom => z \in DOMAIN quizRows'
        /\ \A z \in DOMAIN quizRows :
              (/\ ~quizRows[z].is_custom
               /\ adminResponse'.op = "delete"
               /\ adminResponse'.id = z)
              => adminResponse'.status >= 400 ]_vars

\* C33: every inline question stored in a quiz has a correct index inside its
\* options: 0 <= correct < len(options).
C33_CorrectIndexInOptions ==
    \A z \in DOMAIN quizRows :
        \A k \in 1..Len(quizRows[z].questions) :
            /\ quizRows[z].questions[k].correct >= 0
            /\ quizRows[z].questions[k].correct < Len(quizRows[z].questions[k].options)

\* C36: an add request's UPDATE keeps every inline question the quiz holds when
\* it is written: the stored list is a prefix of the list written, so no
\* question added by another request in between is lost.
C36_ConcurrentAddsKept ==
    [][ \A h \in AdminHandlers :
          (/\ adminPc[h] = "update" /\ adminPc'[h] = "idle"
           /\ adminReq[h].op = "add"
           /\ adminReq[h].id \in DOMAIN quizRows)
          => /\ Len(quizRows'[adminReq[h].id].questions)
                    >= Len(quizRows[adminReq[h].id].questions)
             /\ SubSeq(quizRows'[adminReq[h].id].questions, 1,
                       Len(quizRows[adminReq[h].id].questions))
                    = quizRows[adminReq[h].id].questions ]_vars

\* C37: an update or a delete of an inline question by index reaches its UPDATE
\* only with an index in 0..len-1, writing the list with exactly that question
\* replaced or removed; with any other index (negative, >= len, not a number)
\* it is answered with an error and the stored questions stay as they are.
C37_IndexedEditInRange ==
    [][ \A h \in AdminHandlers :
          /\ (/\ adminPc[h] = "idle" /\ adminPc'[h] = "update"
              /\ adminReq'[h].op \in {"updateAt", "deleteAt"})
             => LET index == adminReq'[h].index
                    stored == quizRows[adminReq'[h].id].questions
                    written == adminReq'[h].questions
                IN  /\ index # NotANumber
                    /\ index[1] \in 0..(Len(stored) - 1)
                    /\ adminReq'[h].op = "updateAt" =>
                          /\ Len(written) = Len(stored)
                          /\ \A k \in 1..Len(stored) :
                                k # index[1] + 1 => written[k] = stored[k]
                    /\ adminReq'[h].op = "deleteAt" =>
                          written = SubSeq(stored, 1, index[1])
                                        \o SubSeq(stored, index[1] + 2, Len(stored))
          /\ (/\ adminPc[h] = "idle" /\ adminPc'[h] = "idle"
              /\ adminResponse'.op \in {"updateAt", "deleteAt"}
              /\ adminResponse'.status >= 400)
             => quizRows' = quizRows ]_vars

====
